---------------------------- MODULE Spec2Model ----------------------------
(***************************************************************************)
(* esp-serial: a browser page that talks to an ESP device over Web Serial  *)
(* (and Web Bluetooth).  This module models                                *)
(*   - the framing pipeline of src/utils/serialTransforms.ts               *)
(*     (TextDecoderStream, LineBreakTransformer, createSerialReader),      *)
(*   - the serial adapter of src/composables/useSerial.ts,                 *)
(*   - the view's handlers (startReading, stopReading, handleConnect,      *)
(*     handleDisconnect) of the monitor component,                         *)
(*   - the part of the Web Serial / Streams platform those call.           *)
(* Strings are sequences of code points, byte chunks sequences of 0..255.  *)
(***************************************************************************)
EXTENDS Integers, Sequences, FiniteSets, TLC

(***************************************************************************)
(* Bounds of the model.                                                    *)
(***************************************************************************)
MaxTextLen == 4
MaxWireChars == 2

(***************************************************************************)
(* Code points and bytes used in the inputs.                               *)
(***************************************************************************)
LF == 10
ReplacementChar == 65533

\* The characters the framing inputs are drawn from: "a", "\n", "\r".
TextAlphabet == {97, LF, 13}

\* The characters the device's text is drawn from: "a", "\n" and the euro
\* sign, three bytes in utf-8.
WireAlphabet == {97, LF, 8364}

VARIABLES
  \* ---- framing pipeline (serialTransforms.ts) ----
  text,            \* the whole text the upstream source will produce
  rest,            \* the part of text not yet fed to the transformer
  chunks,          \* the chunks fed so far, in order
  buffer,          \* LineBreakTransformer: `let buffer = ''`
  enqueued,        \* the lines handed to controller.enqueue, in order
  flushed,         \* flush() has run (the upstream closed)
  decoderPending,  \* TextDecoderStream: bytes of an incomplete character
  \* ---- number conversions (bleTransforms.ts) ----
  num,             \* the number handed to numberToUint8Array: [hi, lo]
  byteLength,      \* its byteLength argument
  encoded,         \* what numberToUint8Array returned or threw
  decoded,         \* what dataViewToNumber returned or threw
  \* ---- the platform's SerialPort (env.d.ts) ----
  portState,       \* "closed" | "opening" | "opened" | "closing"
  writable,        \* port.writable's lock: "none" | "locked" | "errored"
  rxQueue,         \* chunks queued in port.readable, not yet read
  piped,           \* port.readable is locked by a pipeThrough
  pendingWrites,   \* writer.write() promises that have not settled
  lastWrite,       \* the bytes of the last chunk handed to writer.write()
  delivered,       \* number of chunks the device has sent
  \* ---- useSerial() refs (useSerial.ts:16-20) ----
  port,            \* "null" | "port"
  isConnected,
  error,           \* "null" or the message
  reader,          \* "null" (nothing in the repository assigns it)
  writer,          \* "null" | "writer"
  \* ---- the view's refs ----
  connectionType,  \* "serial" | "ble"
  isReading,
  serialReader,    \* 0 (null) or the id of the loop whose reader it holds
  messages,
  inputMessage,    \* the text of the input field
  loops,           \* the startReading invocations: pc, reader state
  calls,           \* where each in-flight handler is suspended
  \* ---- history ----
  lastEvent,       \* what the last step completed
  held,            \* the handles that existed when disconnect() began
  attempted,       \* the release steps the last disconnect() attempted
  closedWhileHeld, \* port.close() was invoked while a handle was held
  lateLoops,       \* loops that appended to messages after a stop signal
  \* ---- useBluetooth() refs (useBluetooth.ts:25-31) ----
  manager,         \* "null" | "manager"
  device,          \* "null" | "device"
  isBleConnected,  \* useBluetooth's isConnected
  bleError,        \* useBluetooth's error: "null" or the message
  services,        \* the set of discovered services
  currentService,  \* "null" or a service
  currentCharacteristic, \* "null" or a characteristic
  \* ---- the view's Bluetooth refs ----
  characteristics, \* the view's characteristics ref: a list
  \* ---- the Bluetooth platform and the BluetoothManager ----
  gattConnected,   \* device.gatt.connected
  managerService,  \* the service the manager's getService fetched last
  listeners,       \* per characteristic: listeners added by addEventListener
  bleCalls,        \* the adapter operations in flight
  \* ---- history ----
  bleLastEvent,    \* what the last Bluetooth step completed
  listing,         \* what the last getCharacteristics() returned
  staleCommit      \* an operation begun before a disconnect stored its result

numberVars == <<num, byteLength, encoded, decoded>>
framingVars == <<text, rest, chunks, buffer, enqueued, flushed, decoderPending,
                 numberVars>>
platformVars == <<portState, writable, rxQueue, piped, pendingWrites, lastWrite,
                 delivered>>
adapterVars == <<port, isConnected, error, reader, writer>>
viewVars == <<connectionType, isReading, serialReader, messages, inputMessage,
             loops, calls>>
historyVars == <<lastEvent, held, attempted, closedWhileHeld, lateLoops>>
serialVars == <<platformVars, adapterVars, viewVars, historyVars>>
bleVars == <<manager, device, isBleConnected, bleError, services,
             currentService, currentCharacteristic, gattConnected,
             managerService, listeners, bleCalls, bleLastEvent, staleCommit,
             characteristics, listing>>
sessionVars == <<serialVars, bleVars>>

vars == <<framingVars, sessionVars>>

(***************************************************************************)
(* String helpers, as the JavaScript built-ins compute them.               *)
(***************************************************************************)

\* A search that takes a CR for a line boundary as well.
FirstLineBreak(s) ==
  IF \E i \in 1..Len(s) : s[i] \in {LF, 13}
  THEN CHOOSE i \in 1..Len(s) :
         s[i] \in {LF, 13} /\ \A j \in 1..(i-1) : s[j] \notin {LF, 13}
  ELSE 0

\* Index of the first LF of s, 0 when there is none.
FirstLF(s) ==
  IF \E i \in 1..Len(s) : s[i] = LF
  THEN CHOOSE i \in 1..Len(s) : s[i] = LF /\ \A j \in 1..(i-1) : s[j] # LF
  ELSE 0

\* String.prototype.split('\n'): always at least one element.
RECURSIVE Split(_)
Split(s) ==
  LET i == FirstLF(s)
  IN  IF i = 0 THEN <<s>>
      ELSE <<SubSeq(s, 1, i-1)>> \o Split(SubSeq(s, i+1, Len(s)))

(***************************************************************************)
(* LineBreakTransformer (serialTransforms.ts:32-58).                       *)
(***************************************************************************)

\* A transform that forgets the carried-over partial line.
TransformChunkNoCarry(buf, chunk) ==
  LET lines == Split(chunk)
  IN  [buffer |-> lines[Len(lines)],
       lines  |-> SubSeq(lines, 1, Len(lines) - 1)]

\* transform(chunk, controller): buffer += chunk; split; keep the last
\* fragment as the new buffer; enqueue the others.
TransformChunk(buf, chunk) ==
  LET lines == Split(buf \o chunk)
  IN  [buffer |-> lines[Len(lines)],
       lines  |-> SubSeq(lines, 1, Len(lines) - 1)]

\* flush(controller): enqueue the buffer when it is non-empty.
FlushLines(buf) == IF buf # <<>> THEN <<buf>> ELSE <<>>

(***************************************************************************)
(* TextDecoder for utf-8 (serialTransforms.ts:4-13 and the view's          *)
(* `new TextDecoder()`).  `pending` holds the bytes of an incomplete       *)
(* sequence; decode(chunk, {stream: true}) keeps it for the next call,     *)
(* decode(chunk) ends the input: an incomplete sequence becomes U+FFFD.    *)
(***************************************************************************)

\* Continuation bytes a lead byte announces; -1 for a byte that cannot lead.
Utf8Needed(b) ==
  IF b < 128 THEN 0
  ELSE IF b \in 194..223 THEN 1
  ELSE IF b \in 224..239 THEN 2
  ELSE IF b \in 240..244 THEN 3
  ELSE -1

IsContinuation(b) == b \in 128..191

\* The code point of a complete sequence <<lead, continuation...>>.
RECURSIVE Utf8Accumulate(_, _)
Utf8Accumulate(acc, bs) ==
  IF bs = <<>> THEN acc
  ELSE Utf8Accumulate(acc * 64 + (Head(bs) - 128), Tail(bs))

Utf8CodePoint(bs) ==
  LET lead == bs[1]
      bits == IF lead \in 194..223 THEN lead - 192
              ELSE IF lead \in 224..239 THEN lead - 224
              ELSE lead - 240
  IN  Utf8Accumulate(bits, Tail(bs))

\* One byte through the decoder.
RECURSIVE DecodeByte(_, _)
DecodeByte(st, b) ==
  IF st.pending = <<>>
  THEN IF Utf8Needed(b) = 0 THEN [st EXCEPT !.out = Append(@, b)]
       ELSE IF Utf8Needed(b) > 0 THEN [st EXCEPT !.pending = <<b>>]
       ELSE [st EXCEPT !.out = Append(@, ReplacementChar)]
  ELSE IF IsContinuation(b)
       THEN LET bs == Append(st.pending, b)
            IN  IF Len(bs) = Utf8Needed(bs[1]) + 1
                THEN [pending |-> <<>>, out |-> Append(st.out, Utf8CodePoint(bs))]
                ELSE [st EXCEPT !.pending = bs]
       ELSE \* the sequence is cut short: U+FFFD, then the byte is read again
            DecodeByte([pending |-> <<>>,
                        out |-> Append(st.out, ReplacementChar)], b)

RECURSIVE DecodeBytes(_, _)
DecodeBytes(st, bytes) ==
  IF bytes = <<>> THEN st
  ELSE DecodeBytes(DecodeByte(st, Head(bytes)), Tail(bytes))

\* decoder.decode(chunk, {stream}): the text, and the bytes carried over.
Utf8Decode(pending, bytes, stream) ==
  LET r == DecodeBytes([pending |-> pending, out |-> <<>>], bytes)
  IN  IF stream \/ r.pending = <<>> THEN r
      ELSE [pending |-> <<>>, out |-> Append(r.out, ReplacementChar)]

\* TextEncoder.encode of one code point, and of a string.
Utf8EncodeChar(c) ==
  IF c < 128 THEN <<c>>
  ELSE IF c < 2048 THEN <<192 + (c \div 64), 128 + (c % 64)>>
  ELSE IF c < 65536
  THEN <<224 + (c \div 4096), 128 + ((c \div 64) % 64), 128 + (c % 64)>>
  ELSE <<240 + (c \div 262144), 128 + ((c \div 4096) % 64),
         128 + ((c \div 64) % 64), 128 + (c % 64)>>

RECURSIVE Utf8Encode(_)
Utf8Encode(str) ==
  IF str = <<>> THEN <<>> ELSE Utf8EncodeChar(Head(str)) \o Utf8Encode(Tail(str))

\* White space of String.prototype.trim (the Basic Multilingual Plane).
WhiteSpace ==
  {9, 10, 11, 12, 13, 32, 160, 5760, 8232, 8233, 8239, 8287, 12288, 65279}
    \cup (8192..8202)

\* line.trim() is the empty string.
IsBlank(line) == \A i \in 1..Len(line) : line[i] \in WhiteSpace

(***************************************************************************)
(* The serial session: the platform's port, useSerial() and the view.      *)
(* Code between two awaits runs without interruption, so every action      *)
(* below runs a handler from one suspension point to the next, together    *)
(* with the continuations that the step itself makes runnable.  The        *)
(* operators compute on a record of the session's state.                   *)
(***************************************************************************)
MaxLoops == 2
MaxChunks == 2
MaxQueue == 1
MaxWrites == 2
MaxInputLen == 1

\* What the user types: spaces and a three-byte character.
InputAlphabet == {32, 8364}
Inputs == UNION {[1..n -> InputAlphabet] : n \in 0..MaxInputLen}

LoopIds == 1..MaxLoops

\* A startReading slot that is not in use.
IdleLoop == [pc |-> "idle", rd |-> "none", stopped |-> FALSE]

\* The one chunk the device sends in the lifecycle specification: "a\n".
LifecycleChunk == <<97, LF>>

Cur ==
  [portState |-> portState, writable |-> writable, rxQueue |-> rxQueue,
   piped |-> piped, pendingWrites |-> pendingWrites, lastWrite |-> lastWrite,
   inputMessage |-> inputMessage, connectionType |-> connectionType,
   port |-> port, isConnected |-> isConnected, error |-> error,
   reader |-> reader, writer |-> writer,
   isReading |-> isReading, serialReader |-> serialReader,
   messages |-> messages, loops |-> loops, calls |-> calls,
   lastEvent |-> "", held |-> held, attempted |-> attempted,
   closedWhileHeld |-> closedWhileHeld, lateLoops |-> lateLoops]

Commit(s) ==
  /\ portState' = s.portState
  /\ writable' = s.writable
  /\ rxQueue' = s.rxQueue
  /\ piped' = s.piped
  /\ pendingWrites' = s.pendingWrites
  /\ lastWrite' = s.lastWrite
  /\ inputMessage' = s.inputMessage
  /\ connectionType' = s.connectionType
  /\ port' = s.port
  /\ isConnected' = s.isConnected
  /\ error' = s.error
  /\ reader' = s.reader
  /\ writer' = s.writer
  /\ isReading' = s.isReading
  /\ serialReader' = s.serialReader
  /\ messages' = s.messages
  /\ loops' = s.loops
  /\ calls' = s.calls
  /\ lastEvent' = s.lastEvent
  /\ held' = s.held
  /\ attempted' = s.attempted
  /\ closedWhileHeld' = s.closedWhileHeld
  /\ lateLoops' = s.lateLoops
  /\ UNCHANGED bleVars

(***************************************************************************)
(* The platform.                                                           *)
(***************************************************************************)

\* port.readable is not null (its getter makes a stream while opened).
Readable(s) == s.portState = "opened"

\* A platform whose streams carry no lock.
ReadableNeverLocked(s) == FALSE

\* The live port.readable is locked: by a reader, or by a pipe.
ReadableLocked(s) == s.piped \/ \E i \in LoopIds : s.loops[i].rd = "active"

\* Some startReading invocation still holds a reader it has not released.
ReaderHeld(s) == \E i \in LoopIds : s.loops[i].rd # "none"

FreeLoops(s) == {i \in LoopIds : s.loops[i] = IdleLoop}

(***************************************************************************)
(* The view: startReading / stopReading.                                   *)
(***************************************************************************)

\* The lines of one chunk that the loop pushes: decode, split, skip blanks.
RECURSIVE NonBlank(_)
NonBlank(ls) ==
  IF ls = <<>> THEN <<>>
  ELSE IF IsBlank(Head(ls)) THEN NonBlank(Tail(ls))
  ELSE <<Head(ls)>> \o NonBlank(Tail(ls))

ChunkLines(chunk) == NonBlank(Split(Utf8Decode(<<>>, chunk, FALSE).out))

\* After the while loop: releaseLock() and serialReader.value = null.
FinishLoop(s, i) ==
  [s EXCEPT !.loops[i] = IdleLoop, !.serialReader = 0]

\* reader.read() resolved with a chunk: the lines are pushed and the loop
\* waits for its setTimeout(0).
ProcessChunk(s, i, chunk) ==
  LET ls == ChunkLines(chunk)
  IN  [s EXCEPT !.messages = @ \o ls,
                !.loops[i].pc = "yield",
                !.lateLoops = IF s.loops[i].stopped /\ ls # <<>>
                              THEN @ \cup {i} ELSE @]

\* The loop calls reader.read().
ReadCall(s, i) ==
  IF s.loops[i].rd = "active"
  THEN IF s.rxQueue # <<>>
       THEN ProcessChunk([s EXCEPT !.rxQueue = Tail(@)], i, Head(s.rxQueue))
       ELSE [s EXCEPT !.loops[i].pc = "read"]
  ELSE IF s.loops[i].rd = "errored"
  THEN \* read() rejects with the stream's error: the inner catch breaks
       [FinishLoop(s, i) EXCEPT !.lastEvent = "read:error"]
  ELSE \* closed: {done: true}; released: read() rejects, the inner catch
       \* breaks.  Either way the loop is left.
       FinishLoop(s, i)

\* releaseLock() through a reader reference held by someone else: a pending
\* read of that reader is rejected, and its loop leaves through its catch.
ReleaseReader(s, j) ==
  IF s.loops[j].pc = "read" THEN FinishLoop(s, j)
  ELSE [s EXCEPT !.loops[j].rd = "none"]

\* The outer catch of startReading.  The invocation i that threw ends
\* without releasing its own reader.
OuterCatch(s, i) ==
  LET s1 == [s EXCEPT !.isReading = FALSE,
                      !.loops[i].pc = "idle"]
      s2 == IF s1.serialReader # 0
            THEN ReleaseReader(s1, s1.serialReader) ELSE s1
  IN  [s2 EXCEPT !.serialReader = 0]

\* The head of the while loop.
LoopIterate(s, i) ==
  IF ~s.isReading THEN FinishLoop(s, i)
  ELSE IF s.port = "null" THEN OuterCatch(s, i)
  ELSE IF ~Readable(s) THEN FinishLoop(s, i)
  ELSE ReadCall(s, i)

\* startReading(), up to its first suspension.
StartReading(s) ==
  IF s.port = "null" \/ ~Readable(s) THEN s
  ELSE LET s1 == [s EXCEPT !.isReading = TRUE]
       IN  IF ReadableLocked(s1)
           THEN \* getReader() throws: the stream is locked
                LET s2 == [s1 EXCEPT !.isReading = FALSE]
                    s3 == IF s2.serialReader # 0
                          THEN ReleaseReader(s2, s2.serialReader) ELSE s2
                IN  [s3 EXCEPT !.serialReader = 0]
           ELSE LET i == CHOOSE j \in FreeLoops(s1) :
                           \A k \in FreeLoops(s1) : j <= k
                IN  LoopIterate(
                      [s1 EXCEPT !.loops[i] = [pc |-> "yield", rd |-> "active",
                                               stopped |-> FALSE],
                                 !.serialReader = i], i)

\* A stopReading() that cancels without looking at serialReader: with no
\* reader the call throws, and the view's handler reports it.
StopReadingUnguarded(s, k) ==
  LET s1 == [s EXCEPT !.isReading = FALSE]
      j  == s1.serialReader
  IN  IF j = 0 THEN [s1 EXCEPT !.error = "TypeError", !.calls[k] = "stopped"]
      ELSE IF s1.loops[j].rd = "active"
      THEN LET s2 == [s1 EXCEPT !.rxQueue = <<>>, !.calls[k] = "cancel"]
           IN  IF s2.loops[j].pc = "read" THEN FinishLoop(s2, j)
               ELSE [s2 EXCEPT !.loops[j].rd = "closed"]
      ELSE [s1 EXCEPT !.serialReader = 0, !.calls[k] = "stopped"]

\* stopReading(), up to `await cancel()`.  calls[k] = "cancel" when the
\* caller k is left waiting for the platform to finish the cancel.
StopReadingBegin(s, k) ==
  LET s1 == [s EXCEPT !.isReading = FALSE,
                      !.loops = [i \in LoopIds |->
                                   IF s.loops[i].pc # "idle"
                                   THEN [s.loops[i] EXCEPT !.stopped = TRUE]
                                   ELSE s.loops[i]]]
      j  == s1.serialReader
  IN  IF j = 0 THEN [s1 EXCEPT !.calls[k] = "stopped"]
      ELSE IF s1.loops[j].rd = "active"
      THEN \* the stream closes now: a pending read resolves {done: true}
           LET s2 == [s1 EXCEPT !.rxQueue = <<>>, !.calls[k] = "cancel"]
           IN  IF s2.loops[j].pc = "read" THEN FinishLoop(s2, j)
               ELSE [s2 EXCEPT !.loops[j].rd = "closed"]
      ELSE IF s1.loops[j].rd = "closed"
      THEN [s1 EXCEPT !.serialReader = 0, !.calls[k] = "stopped"]
      ELSE \* errored or released: cancel() rejects, caught and logged
           [s1 EXCEPT !.calls[k] = "stopped"]

\* stopReading() after `await cancel()`.
StopReadingResume(s, k, ok) ==
  IF ok THEN [s EXCEPT !.serialReader = 0, !.calls[k] = "stopped"]
  ELSE [s EXCEPT !.calls[k] = "stopped"]

(***************************************************************************)
(* useSerial(): requestPort / connect / disconnect.                        *)
(***************************************************************************)

\* A requestPort() that swallows the rejection of the prompt.
RequestPortSilent(s, k, granted) ==
  IF granted
  THEN [s EXCEPT !.port = "port", !.calls[k] = "requested",
                 !.lastEvent = "requestPort:ok"]
  ELSE [s EXCEPT !.calls[k] = "requested",
                 !.lastEvent = "requestPort:failed"]

\* requestPort() after the user answered the prompt.
RequestPortResume(s, k, granted) ==
  IF granted
  THEN [s EXCEPT !.port = "port", !.calls[k] = "requested",
                 !.lastEvent = "requestPort:ok"]
  ELSE [s EXCEPT !.error = "No port selected by the user.",
                 !.calls[k] = "requested",
                 !.lastEvent = "requestPort:failed"]

\* connect(), up to `await port.open()`.
ConnectBegin(s, k) ==
  IF s.port = "null"
  THEN [s EXCEPT !.error = "No port selected", !.calls[k] = "connected",
                 !.lastEvent = "connect:no-port"]
  ELSE IF s.portState # "closed"
  THEN \* open() rejects with InvalidStateError; the catch block runs
       [s EXCEPT !.error = "The port is already open.",
                 !.isConnected = FALSE,
                 !.calls[k] = "connected",
                 !.lastEvent = "connect:failed"]
  ELSE [s EXCEPT !.error = "null", !.portState = "opening",
                 !.calls[k] = "open"]

\* connect() after `await port.open()`.
ConnectResume(s, k, ok) ==
  IF ~ok
  THEN [s EXCEPT !.portState = "closed",
                 !.error = "Failed to open serial port.",
                 !.isConnected = FALSE,
                 !.calls[k] = "connected",
                 !.lastEvent = "connect:failed"]
  ELSE IF s.port = "null" \/ s.writable = "locked"
  THEN \* port.value.writable or getWriter() throws a TypeError
       [s EXCEPT !.portState = "opened",
                 !.error = "TypeError",
                 !.isConnected = FALSE,
                 !.calls[k] = "connected",
                 !.lastEvent = "connect:failed"]
  ELSE [s EXCEPT !.portState = "opened",
                 !.isConnected = TRUE,
                 !.writable = "locked",
                 !.writer = "writer",
                 !.calls[k] = "connected",
                 !.lastEvent = "connect:ok"]

\* disconnect(): the catch block.
DisconnectCatch(s, k, what) ==
  [s EXCEPT !.error = "Failed to disconnect",
            !.calls[k] = "disconnected",
            !.lastEvent = what]

\* disconnect(): `if (port.value) { await port.value.close() ... }`, up to
\* the await.  close() rejects at once unless the port is opened and
\* neither of its streams is locked.
DisconnectClosePort(s, k) ==
  IF s.port = "null"
  THEN [s EXCEPT !.isConnected = FALSE, !.calls[k] = "disconnected",
                 !.lastEvent = "disconnect:ok"]
  ELSE LET s1 == [s EXCEPT !.attempted = @ \cup {"port"},
                           !.closedWhileHeld =
                              @ \/ ReaderHeld(s) \/ s.writer # "null"]
       IN  IF s1.portState # "opened" \/ ReadableLocked(s1)
              \/ s1.writable = "locked"
           THEN DisconnectCatch(s1, k, "disconnect:port-close-threw")
           ELSE [s1 EXCEPT !.portState = "closing", !.calls[k] = "portClose"]

\* disconnect(), up to its first await.
DisconnectBegin(s, k) ==
  LET s1 == [s EXCEPT !.error = "null",
                      !.held = (IF s.reader # "null" THEN {"reader"} ELSE {})
                               \cup (IF s.writer # "null" THEN {"writer"} ELSE {})
                               \cup (IF s.port # "null" THEN {"port"} ELSE {}),
                      !.attempted = {}]
  IN  IF s1.writer # "null"
      THEN LET s2 == [s1 EXCEPT !.attempted = @ \cup {"writer"}]
           IN  IF s2.writable = "errored"
               THEN DisconnectCatch(s2, k, "disconnect:writer-close-threw")
               ELSE [s2 EXCEPT !.calls[k] = "writerClose"]
      ELSE DisconnectClosePort(s1, k)

\* disconnect() after `await writer.value.close()`.
DisconnectWriterClosed(s, k, ok) ==
  IF ok
  THEN DisconnectClosePort([s EXCEPT !.writable = "none", !.writer = "null"], k)
  ELSE DisconnectCatch([s EXCEPT !.writable = "errored"], k,
                       "disconnect:writer-close-threw")

\* disconnect() after `await port.value.close()`.
DisconnectPortClosed(s, k) ==
  [s EXCEPT !.portState = "closed", !.rxQueue = <<>>,
            !.port = "null", !.isConnected = FALSE,
            !.calls[k] = "disconnected",
            !.lastEvent = "disconnect:ok"]

\* A write() that hands the chunk to the stream without looking at writer.
WriteBeginUnguarded(s, data) ==
  [s EXCEPT !.error = "null", !.pendingWrites = @ + 1,
            !.lastWrite = Utf8Encode(data)]

\* write(data), up to `await writer.value.write(encoder.encode(data))`.
\* The stream takes the chunk into its queue; it rejects at once when it
\* is errored or closing.
WriteBegin(s, data) ==
  IF s.writer = "null"
  THEN [s EXCEPT !.error = "No active connection",
                 !.lastEvent = "write:no-connection"]
  ELSE IF s.writable # "locked"
          \/ \E k \in DOMAIN s.calls : s.calls[k] = "writerClose"
  THEN [s EXCEPT !.error = "Failed to write data",
                 !.lastEvent = "write:failed"]
  ELSE [s EXCEPT !.error = "null", !.pendingWrites = @ + 1,
                 !.lastWrite = Utf8Encode(data)]

\* write() after the await.  A failed write leaves the stream errored.
WriteResume(s, ok) ==
  IF ok
  THEN [s EXCEPT !.pendingWrites = @ - 1, !.lastEvent = "write:ok"]
  ELSE [s EXCEPT !.pendingWrites = @ - 1,
                 !.writable = "errored",
                 !.error = "Failed to write data",
                 !.lastEvent = "write:failed"]

\* sendMessage after writeSerial() returned: inputMessage.value = ''.
AfterWrite(s) == [s EXCEPT !.inputMessage = <<>>]

\* A sendMessage that sends the text as typed, without the line feed.
SendMessageNoDelimiter(s) ==
  IF IsBlank(s.inputMessage) THEN s
  ELSE LET s1 == WriteBegin(s, s.inputMessage)
       IN  IF s1.pendingWrites > s.pendingWrites THEN s1 ELSE AfterWrite(s1)

\* sendMessage, up to the await inside write(): nothing is sent when the
\* trimmed input is empty, else the input and '\n' go to write().
SendMessageBegin(s) ==
  IF IsBlank(s.inputMessage) THEN s
  ELSE LET s1 == WriteBegin(s, s.inputMessage \o <<LF>>)
       IN  IF s1.pendingWrites > s.pendingWrites THEN s1 ELSE AfterWrite(s1)

(***************************************************************************)
(* The view's handlers, as sequences of the steps above.                   *)
(***************************************************************************)

\* handleConnect after connectSerial() returned.
AfterConnect(s) ==
  LET s1 == IF s.isConnected THEN StartReading(s) ELSE s
  IN  [s1 EXCEPT !.calls.handleConnect = "idle"]

\* handleConnect from `if (port.value)` on.
AfterRequest(s) ==
  IF s.port = "null" THEN [s EXCEPT !.calls.handleConnect = "idle"]
  ELSE LET s1 == ConnectBegin(s, "handleConnect")
       IN  IF s1.calls.handleConnect = "connected" THEN AfterConnect(s1)
           ELSE s1

\* handleDisconnect after disconnectSerial() returned: messages.value = [].
AfterDisconnect(s) ==
  [s EXCEPT !.messages = <<>>, !.calls.handleDisconnect = "idle"]

\* handleDisconnect after stopReading() returned.
AfterStop(s) ==
  LET s1 == DisconnectBegin(s, "handleDisconnect")
  IN  IF s1.calls.handleDisconnect = "disconnected" THEN AfterDisconnect(s1)
      ELSE s1

(***************************************************************************)
(* The Bluetooth device: service "A" with the characteristic "a1", which  *)
(* notifies and cannot be written, and service "B" with "b1", which can   *)
(* be written and does not notify.                                         *)
(***************************************************************************)
Services == {"A", "B"}
Characteristics == {"a1", "b1"}

\* The service a characteristic belongs to.
CharService(c) == IF c \in {"a1", "a2", "a3"} THEN "A" ELSE "B"

\* characteristic.properties.notify
HasNotify(c) == c = "a1"

\* characteristic.properties.write || .writeWithoutResponse
HasWrite(c) == c \in {"b1", "a2", "a3"}

\* What the device lists for a service.  Service A holds, after a1, two
\* writable characteristics that no caller of this model asks for by uuid.
ServiceCharacteristics(u) ==
  IF u = "A" THEN <<"a1", "a2", "a3">>
  ELSE IF u = "B" THEN <<"b1">>
  ELSE <<>>

\* The identifiers selectService is called with: the device's services and
\* one it does not expose.
ServiceIds == Services \cup {"X"}

BleOps == {"handleConnect", "selectService", "selectCharacteristic",
           "startNotifications", "writeValue", "getServices",
           "getCharacteristics"}

\* An adapter operation that is not in flight.
BleIdleCall ==
  [pc |-> "idle", arg |-> "none", svc |-> "none", view |-> FALSE,
   crossed |-> FALSE, doomed |-> FALSE]

NoBleEvent == [op |-> "none", ok |-> TRUE, arg |-> "none"]

BleInit ==
  /\ manager = "null"
  /\ device = "null"
  /\ isBleConnected = FALSE
  /\ bleError = "null"
  /\ services = {}
  /\ currentService = "null"
  /\ currentCharacteristic = "null"
  /\ gattConnected = FALSE
  /\ managerService = "none"
  /\ listeners = [c \in Characteristics |-> 0]
  /\ bleCalls = [o \in BleOps |-> BleIdleCall]
  /\ bleLastEvent = NoBleEvent
  /\ staleCommit = FALSE
  /\ characteristics = <<>>
  /\ listing = <<>>

(***************************************************************************)
(* Numbers for Bluetooth writes (bleTransforms.ts:21-40, 76-93).  A number *)
(* is kept as two limbs, hi * 2^16 + lo with lo in 0..2^16-1, so that an   *)
(* unsigned 32-bit value is exact.  DataView.setUintN stores the           *)
(* number modulo 2^N; getUintN and getIntN read N bits, little-endian      *)
(* where the code asks for it.                                             *)
(***************************************************************************)
MaxByteLength == 5

ByteLengths == 0..MaxByteLength

NumberTypes == {"uint8", "uint16", "uint32", "int8", "int16", "int32", "float32"}

\* The numbers tried: the edges of each width, in and out of range.
LimbSamples == {0, 1, 127, 128, 255, 256, 4660, 32767, 32768, 65535}

Numbers ==
  [hi : LimbSamples \cup {-1, 65536, 65537}, lo : LimbSamples]

NoOutcome == [st |-> "none", bytes |-> <<>>, type |-> "none",
              n |-> [hi |-> 0, lo |-> 0]]

Thrown(name) == [NoOutcome EXCEPT !.st = name]

\* A conversion that stores the most significant byte first.
NumberToUint8ArrayBigEndian(n, k) ==
  IF k = 1 THEN [NoOutcome EXCEPT !.st = "ok", !.bytes = <<n.lo % 256>>]
  ELSE IF k = 2
  THEN [NoOutcome EXCEPT !.st = "ok",
                         !.bytes = <<(n.lo \div 256) % 256, n.lo % 256>>]
  ELSE IF k = 4
  THEN [NoOutcome EXCEPT !.st = "ok",
                         !.bytes = <<(n.hi \div 256) % 256, n.hi % 256,
                                     (n.lo \div 256) % 256, n.lo % 256>>]
  ELSE Thrown("Error")

\* numberToUint8Array(num, byteLength): setUint8 / setUint16 / setUint32
\* with littleEndian = true, an Error for any other byteLength.
NumberToUint8Array(n, k) ==
  IF k = 1 THEN [NoOutcome EXCEPT !.st = "ok", !.bytes = <<n.lo % 256>>]
  ELSE IF k = 2
  THEN [NoOutcome EXCEPT !.st = "ok",
                         !.bytes = <<n.lo % 256, (n.lo \div 256) % 256>>]
  ELSE IF k = 4
  THEN [NoOutcome EXCEPT !.st = "ok",
                         !.bytes = <<n.lo % 256, (n.lo \div 256) % 256,
                                     n.hi % 256, (n.hi \div 256) % 256>>]
  ELSE Thrown("Error")

\* The bytes a type reads.
TypeWidth(type) ==
  IF type \in {"uint8", "int8"} THEN 1
  ELSE IF type \in {"uint16", "int16"} THEN 2
  ELSE 4

\* dataViewToNumber(dataView, type) over a view of the bytes bs: a
\* RangeError when the view is shorter than the type, an Error for an
\* unknown type.
DataViewToNumber(bs, type) ==
  IF type \notin {"uint8", "uint16", "uint32", "int8", "int16", "int32"}
  THEN [Thrown("Error") EXCEPT !.type = type]
  ELSE IF Len(bs) < TypeWidth(type)
  THEN [Thrown("RangeError") EXCEPT !.type = type]
  ELSE LET w    == TypeWidth(type)
           low  == IF w = 1 THEN bs[1] ELSE bs[1] + 256 * bs[2]
           high == IF w = 4 THEN bs[3] + 256 * bs[4] ELSE 0
           neg  == /\ type \in {"int8", "int16", "int32"}
                   /\ bs[w] >= 128
           n    == IF ~neg THEN [hi |-> high, lo |-> low]
                   ELSE IF w = 1 THEN [hi |-> -1, lo |-> 65536 - 256 + low]
                   ELSE IF w = 2 THEN [hi |-> -1, lo |-> low]
                   ELSE [hi |-> high - 65536, lo |-> low]
       IN  [NoOutcome EXCEPT !.st = "ok", !.type = type, !.n = n]

\* No conversion under way.
NumberIdle ==
  /\ num = [hi |-> 0, lo |-> 0]
  /\ byteLength = 1
  /\ encoded = NoOutcome
  /\ decoded = NoOutcome

(***************************************************************************)
(* Initial state: the page is mounted, nothing requested.                  *)
(***************************************************************************)
FramingIdle ==
  /\ text = <<>>
  /\ rest = <<>>
  /\ chunks = <<>>
  /\ buffer = <<>>
  /\ enqueued = <<>>
  /\ flushed = FALSE
  /\ decoderPending = <<>>
  /\ NumberIdle

\* The refs of a page showing the transport t, nothing requested yet.
SessionStart(t) ==
  /\ connectionType = t
  /\ portState = "closed"
  /\ writable = "none"
  /\ rxQueue = <<>>
  /\ piped = FALSE
  /\ pendingWrites = 0
  /\ lastWrite = <<>>
  /\ inputMessage = <<>>
  /\ delivered = 0
  /\ port = "null"
  /\ isConnected = FALSE
  /\ error = "null"
  /\ reader = "null"
  /\ writer = "null"
  /\ isReading = FALSE
  /\ serialReader = 0
  /\ messages = <<>>
  /\ loops = [i \in LoopIds |-> IdleLoop]
  /\ calls = [handleConnect |-> "idle", handleDisconnect |-> "idle",
              connect |-> "idle"]
  /\ lastEvent = ""
  /\ held = {}
  /\ attempted = {}
  /\ closedWhileHeld = FALSE
  /\ lateLoops = {}
  /\ BleInit

\* The page as mounted: connectionType is 'serial'.
SessionInit == SessionStart("serial")

Init == FramingIdle /\ SessionInit

\* The page after the Bluetooth LE button was pressed.
InitBle == FramingIdle /\ SessionStart("ble")

(***************************************************************************)
(* Actions of the session.                                                 *)
(***************************************************************************)

\* The Connect button (shown while the view's isConnected is false).
HandleConnect ==
  /\ connectionType = "serial"
  /\ calls.handleConnect = "idle"
  /\ ~isConnected
  /\ IF port = "null"
     THEN \* requestPort(): error.value = null, then the prompt
          Commit([Cur EXCEPT !.error = "null",
                             !.calls.handleConnect = "requestPort"])
     ELSE Commit(AfterRequest(Cur))
  /\ UNCHANGED <<framingVars, delivered>>

\* The user answers the port prompt.
RequestPortDone ==
  /\ calls.handleConnect = "requestPort"
  /\ \E granted \in BOOLEAN :
       Commit(AfterRequest(RequestPortResume(Cur, "handleConnect", granted)))
  /\ UNCHANGED <<framingVars, delivered>>

\* port.open() of handleConnect's connect() settles.
OpenDone ==
  /\ calls.handleConnect = "open"
  /\ FreeLoops(Cur) # {}
  /\ \E ok \in BOOLEAN :
       Commit(AfterConnect(ConnectResume(Cur, "handleConnect", ok)))
  /\ UNCHANGED <<framingVars, delivered>>

\* connect() called on the composable by any of its users.
ConnectCall ==
  /\ calls.connect = "idle"
  /\ LET s1 == ConnectBegin(Cur, "connect")
     IN  Commit(IF s1.calls.connect = "connected"
                THEN [s1 EXCEPT !.calls.connect = "idle"] ELSE s1)
  /\ UNCHANGED <<framingVars, delivered>>

ConnectCallDone ==
  /\ calls.connect = "open"
  /\ \E ok \in BOOLEAN :
       Commit([ConnectResume(Cur, "connect", ok) EXCEPT !.calls.connect = "idle"])
  /\ UNCHANGED <<framingVars, delivered>>

\* The Disconnect button (shown while the view's isConnected is true).
HandleDisconnect ==
  /\ connectionType = "serial"
  /\ calls.handleDisconnect = "idle"
  /\ isConnected
  /\ LET s1 == StopReadingBegin(Cur, "handleDisconnect")
     IN  Commit(IF s1.calls.handleDisconnect = "stopped" THEN AfterStop(s1)
                ELSE s1)
  /\ UNCHANGED <<framingVars, delivered>>

\* reader.cancel() of stopReading settles.
CancelDone ==
  /\ calls.handleDisconnect = "cancel"
  /\ \E ok \in BOOLEAN :
       Commit(AfterStop(StopReadingResume(Cur, "handleDisconnect", ok)))
  /\ UNCHANGED <<framingVars, delivered>>

\* writer.close() of disconnect() settles.
WriterCloseDone ==
  /\ calls.handleDisconnect = "writerClose"
  /\ \E ok \in BOOLEAN :
       /\ ok => pendingWrites = 0
       /\ LET s1 == DisconnectWriterClosed(Cur, "handleDisconnect", ok)
          IN  Commit(IF s1.calls.handleDisconnect = "disconnected"
                     THEN AfterDisconnect(s1) ELSE s1)
  /\ UNCHANGED <<framingVars, delivered>>

\* port.close() of disconnect() settles.
PortCloseDone ==
  /\ calls.handleDisconnect = "portClose"
  /\ Commit(AfterDisconnect(DisconnectPortClosed(Cur, "handleDisconnect")))
  /\ UNCHANGED <<framingVars, delivered>>

\* The setTimeout(0) of a read loop fires.
LoopTimer ==
  /\ \E i \in LoopIds :
       /\ loops[i].pc = "yield"
       /\ Commit(LoopIterate(Cur, i))
  /\ UNCHANGED <<framingVars, delivered>>

\* The device sends a chunk: a pending read takes it, otherwise the stream
\* queues it.
Receive(s, chunk) ==
  IF \E i \in LoopIds : s.loops[i].rd = "active" /\ s.loops[i].pc = "read"
  THEN ProcessChunk(s, CHOOSE i \in LoopIds :
                         s.loops[i].rd = "active" /\ s.loops[i].pc = "read",
                    chunk)
  ELSE [s EXCEPT !.rxQueue = Append(@, chunk)]

PortReceive ==
  /\ portState = "opened"
  /\ delivered < MaxChunks
  /\ Len(rxQueue) < MaxQueue
  /\ Commit(Receive(Cur, LifecycleChunk))
  /\ delivered' = delivered + 1
  /\ UNCHANGED framingVars

\* The readable stream errors (a transport fault): a pending read rejects.
ReadableError ==
  /\ portState = "opened"
  /\ \E i \in LoopIds :
       /\ loops[i].rd = "active"
       /\ Commit(IF loops[i].pc = "read"
                 THEN FinishLoop([Cur EXCEPT !.rxQueue = <<>>,
                                             !.lastEvent = "read:error"], i)
                 ELSE [Cur EXCEPT !.rxQueue = <<>>, !.loops[i].rd = "errored"])
  /\ UNCHANGED <<framingVars, delivered>>

\* The user types a text (the field is enabled while connected) and
\* submits the form: sendMessage runs.
SendMessage ==
  /\ connectionType = "serial"
  /\ isConnected
  /\ pendingWrites < MaxWrites
  /\ \E t \in Inputs : Commit(SendMessageBegin([Cur EXCEPT !.inputMessage = t]))
  /\ UNCHANGED <<framingVars, delivered>>

\* writer.write() of a write() settles: the oldest chunk of the queue.
WriteDone ==
  /\ pendingWrites > 0
  /\ \E ok \in BOOLEAN :
       /\ ok => writable = "locked"
       /\ Commit(AfterWrite(WriteResume(Cur, ok)))
  /\ UNCHANGED <<framingVars, delivered>>

Next ==
  \/ HandleConnect
  \/ RequestPortDone
  \/ OpenDone
  \/ ConnectCall
  \/ ConnectCallDone
  \/ HandleDisconnect
  \/ CancelDone
  \/ WriterCloseDone
  \/ PortCloseDone
  \/ LoopTimer
  \/ PortReceive
  \/ ReadableError
  \/ SendMessage
  \/ WriteDone

Spec == Init /\ [][Next]_vars

(***************************************************************************)
(* The transformer as a state machine fed chunk by chunk.                  *)
(***************************************************************************)

\* All strings over TextAlphabet of length at most MaxTextLen.
Texts == UNION {[1..n -> TextAlphabet] : n \in 0..MaxTextLen}

InitFraming ==
  /\ text \in Texts
  /\ rest = text
  /\ chunks = <<>>
  /\ buffer = <<>>
  /\ enqueued = <<>>
  /\ flushed = FALSE
  /\ decoderPending = <<>>
  /\ NumberIdle
  /\ SessionInit

\* The upstream delivers the next k characters as one chunk.
Transform ==
  /\ ~flushed
  /\ \E k \in 1..Len(rest) :
       LET chunk == SubSeq(rest, 1, k)
           r     == TransformChunk(buffer, chunk)
       IN  /\ buffer' = r.buffer
           /\ enqueued' = enqueued \o r.lines
           /\ chunks' = Append(chunks, chunk)
           /\ rest' = SubSeq(rest, k+1, Len(rest))
  /\ UNCHANGED <<text, flushed, decoderPending, numberVars, sessionVars>>

\* The upstream closes: flush runs once, after the last chunk.
Flush ==
  /\ ~flushed
  /\ rest = <<>>
  /\ enqueued' = enqueued \o FlushLines(buffer)
  /\ flushed' = TRUE
  /\ UNCHANGED <<text, rest, chunks, buffer, decoderPending, numberVars,
                 sessionVars>>

NextFraming == Transform \/ Flush

SpecFraming == InitFraming /\ [][NextFraming]_vars

(***************************************************************************)
(* C1: for every text and every cut of it into consecutive chunks, the     *)
(* lines enqueued by feeding the chunks in order and then flushing are     *)
(* exactly the lines enqueued by feeding the whole text as one chunk and   *)
(* then flushing.                                                          *)
(***************************************************************************)
WholeTextLines(t) ==
  LET r == TransformChunk(<<>>, t) IN r.lines \o FlushLines(r.buffer)

C1_ChunkingInvariance == flushed => enqueued = WholeTextLines(text)

\* A line that was cut by a chunk boundary, and more than one line out.
C1_Witness ==
  /\ flushed
  /\ Len(chunks) >= 2
  /\ chunks[1][Len(chunks[1])] # LF
  /\ Len(enqueued) >= 2


(***************************************************************************)
(* The receive path on its own: the device sends a utf-8 text cut into     *)
(* arbitrary chunks.  The view's read loop takes every chunk; the same     *)
(* chunk goes through the pipeline of createSerialReader                   *)
(* (TextDecoderStream, then LineBreakTransformer), whose state is          *)
(* decoderPending, buffer and enqueued.                                    *)
(***************************************************************************)
WireTexts == UNION {[1..n -> WireAlphabet] : n \in 0..MaxWireChars}

InitReceive ==
  /\ text \in {Utf8Encode(t) : t \in WireTexts}
  /\ rest = text
  /\ chunks = <<>>
  /\ buffer = <<>>
  /\ enqueued = <<>>
  /\ flushed = FALSE
  /\ decoderPending = <<>>
  /\ NumberIdle
  /\ SessionInit

\* TextDecoderStream.transform, then LineBreakTransformer.transform.
PipelineChunk(pending, buf, chunk) ==
  LET d == Utf8Decode(pending, chunk, TRUE)
      r == TransformChunk(buf, d.out)
  IN  [pending |-> d.pending, buffer |-> r.buffer, lines |-> r.lines]

\* The device sends the next k bytes of its text as one chunk.
WireReceive ==
  /\ portState = "opened"
  /\ Len(rxQueue) < MaxQueue
  /\ \E k \in 1..Len(rest) :
       LET chunk == SubSeq(rest, 1, k)
           p     == PipelineChunk(decoderPending, buffer, chunk)
       IN  /\ Commit(Receive(Cur, chunk))
           /\ decoderPending' = p.pending
           /\ buffer' = p.buffer
           /\ enqueued' = enqueued \o p.lines
           /\ chunks' = Append(chunks, chunk)
           /\ rest' = SubSeq(rest, k+1, Len(rest))
  /\ UNCHANGED <<text, flushed, numberVars, delivered>>

NextReceive ==
  \/ HandleConnect
  \/ RequestPortDone
  \/ OpenDone
  \/ LoopTimer
  \/ WireReceive

SpecReceive == InitReceive /\ [][NextReceive]_vars

(***************************************************************************)
(* The session under the scheduling the event loop guarantees: a timer     *)
(* that was set fires, and an operation the platform started settles.      *)
(* Nothing obliges the user to click or the device to send.                *)
(***************************************************************************)
SpecLive ==
  /\ Init
  /\ [][Next]_vars
  /\ WF_vars(LoopTimer)
  /\ WF_vars(OpenDone)
  /\ WF_vars(ConnectCallDone)
  /\ WF_vars(CancelDone)
  /\ WF_vars(WriterCloseDone)
  /\ WF_vars(PortCloseDone)
  /\ WF_vars(WriteDone)

(***************************************************************************)
(* The serial-only view, src/App.vue, on the same adapter.  Its            *)
(* startReading reads lines from createSerialReader(port): port.readable   *)
(* piped through TextDecoderStream and LineBreakTransformer.  Its          *)
(* stopReading only clears isReading.  The pipe keeps port.readable        *)
(* locked until the stream errors or closes.                               *)
(***************************************************************************)

\* `if (value)`: an empty line is not pushed.
RECURSIVE NonEmpty(_)
NonEmpty(ls) ==
  IF ls = <<>> THEN <<>>
  ELSE IF Head(ls) = <<>> THEN NonEmpty(Tail(ls))
  ELSE <<Head(ls)>> \o NonEmpty(Tail(ls))

\* startReading(), up to `await reader.read()`.
LegacyStartReading(s) ==
  IF s.port = "null" \/ ~Readable(s) THEN s
  ELSE IF ReadableLocked(s)
  THEN \* pipeThrough throws on the locked stream: the catch clears the flag
       [s EXCEPT !.isReading = FALSE]
  ELSE LET i == CHOOSE j \in FreeLoops(s) : \A k \in FreeLoops(s) : j <= k
       IN  [s EXCEPT !.isReading = TRUE,
                     !.piped = TRUE,
                     !.loops[i] = [pc |-> "read", rd |-> "active",
                                   stopped |-> FALSE]]

\* stopReading(): isReading.value = false.
LegacyStopReading(s) ==
  [s EXCEPT !.isReading = FALSE,
            !.loops = [i \in LoopIds |->
                         IF s.loops[i].pc # "idle"
                         THEN [s.loops[i] EXCEPT !.stopped = TRUE]
                         ELSE s.loops[i]]]

\* The pending read() of loop i resolves with the first of `lines`.  The
\* line is pushed before the while condition is looked at again; while
\* isReading holds the following reads resolve at once with the lines that
\* are queued, otherwise the loop is left and the reader released.
LegacyTake(s, i, lines) ==
  IF lines = <<>> THEN s
  ELSE LET taken  == IF s.isReading THEN lines ELSE <<Head(lines)>>
           pushed == NonEmpty(taken)
           s1     == [s EXCEPT !.messages = @ \o pushed,
                               !.lateLoops =
                                  IF s.loops[i].stopped /\ pushed # <<>>
                                  THEN @ \cup {i} ELSE @]
       IN  IF s.isReading THEN s1 ELSE [s1 EXCEPT !.loops[i] = IdleLoop]

\* handleConnect after connect() returned.
LegacyAfterConnect(s) ==
  LET s1 == IF s.isConnected THEN LegacyStartReading(s) ELSE s
  IN  [s1 EXCEPT !.calls.handleConnect = "idle"]

\* handleConnect from `if (port.value)` on.
LegacyAfterRequest(s) ==
  IF s.port = "null" THEN [s EXCEPT !.calls.handleConnect = "idle"]
  ELSE LET s1 == ConnectBegin(s, "handleConnect")
       IN  IF s1.calls.handleConnect = "connected" THEN LegacyAfterConnect(s1)
           ELSE s1

\* The Connect button.
LegacyHandleConnect ==
  /\ calls.handleConnect = "idle"
  /\ ~isConnected
  /\ IF port = "null"
     THEN Commit([Cur EXCEPT !.error = "null",
                             !.calls.handleConnect = "requestPort"])
     ELSE Commit(LegacyAfterRequest(Cur))
  /\ UNCHANGED <<framingVars, delivered>>

\* The user answers the port prompt.
LegacyRequestPortDone ==
  /\ calls.handleConnect = "requestPort"
  /\ \E granted \in BOOLEAN :
       Commit(LegacyAfterRequest(
                RequestPortResume(Cur, "handleConnect", granted)))
  /\ UNCHANGED <<framingVars, delivered>>

\* port.open() settles; a new pipeline starts with a new decoder and a new
\* line buffer.
LegacyOpenDone ==
  /\ calls.handleConnect = "open"
  /\ FreeLoops(Cur) # {}
  /\ \E ok \in BOOLEAN :
       LET s1 == LegacyAfterConnect(ConnectResume(Cur, "handleConnect", ok))
       IN  /\ Commit(s1)
           /\ IF s1.piped /\ ~piped
              THEN decoderPending' = <<>> /\ buffer' = <<>> /\ enqueued' = <<>>
              ELSE UNCHANGED <<decoderPending, buffer, enqueued>>
  /\ UNCHANGED <<text, rest, chunks, flushed, numberVars, delivered>>

\* The Disconnect button: stopReading(), then disconnect() up to its await.
LegacyHandleDisconnect ==
  /\ calls.handleDisconnect = "idle"
  /\ isConnected
  /\ LET s1 == DisconnectBegin(LegacyStopReading(Cur), "handleDisconnect")
     IN  Commit(IF s1.calls.handleDisconnect = "disconnected"
                THEN AfterDisconnect(s1) ELSE s1)
  /\ UNCHANGED <<framingVars, delivered>>

\* The device sends the next k bytes of its text as one chunk; the pipe
\* moves it through the decoder and the line transformer, and a pending
\* read takes the lines.
LegacyReceive ==
  /\ portState = "opened"
  /\ piped
  /\ \E k \in 1..Len(rest) :
       LET chunk == SubSeq(rest, 1, k)
           p     == PipelineChunk(decoderPending, buffer, chunk)
       IN  /\ Commit(IF \E i \in LoopIds : loops[i].pc = "read"
                     THEN LegacyTake(Cur, CHOOSE i \in LoopIds :
                                             loops[i].pc = "read", p.lines)
                     ELSE Cur)
           /\ decoderPending' = p.pending
           /\ buffer' = p.buffer
           /\ enqueued' = enqueued \o p.lines
           /\ chunks' = Append(chunks, chunk)
           /\ rest' = SubSeq(rest, k+1, Len(rest))
  /\ UNCHANGED <<text, flushed, numberVars, delivered>>

\* port.readable errors (a transport fault): the pipe ends and unlocks the
\* stream, a pending read rejects and the catch clears isReading.
LegacyReadableError ==
  /\ portState = "opened"
  /\ piped
  /\ Commit([Cur EXCEPT !.piped = FALSE,
                        !.lastEvent = IF \E i \in LoopIds : loops[i].pc = "read"
                                      THEN "read:error" ELSE @,
                        !.isReading = IF \E i \in LoopIds : loops[i].pc = "read"
                                      THEN FALSE ELSE @,
                        !.loops = [i \in LoopIds |-> IdleLoop]])
  /\ UNCHANGED <<framingVars, delivered>>

NextLegacy ==
  \/ LegacyHandleConnect
  \/ LegacyRequestPortDone
  \/ LegacyOpenDone
  \/ LegacyHandleDisconnect
  \/ WriterCloseDone
  \/ PortCloseDone
  \/ LegacyReceive
  \/ LegacyReadableError

SpecLegacy == InitReceive /\ [][NextLegacy]_vars

\* The same under the event loop's scheduling: an operation the platform
\* started settles.  Nothing obliges the user to click, the device to send
\* or the transport to fail.
SpecLegacyLive ==
  /\ InitReceive
  /\ [][NextLegacy]_vars
  /\ WF_vars(LegacyOpenDone)
  /\ WF_vars(WriterCloseDone)
  /\ WF_vars(PortCloseDone)

(***************************************************************************)
(* C2: while the read loop runs, the entries appended to messages are, in  *)
(* order and with nothing dropped or duplicated, the lines the framing     *)
(* pipeline yields for the bytes received.                                 *)
(***************************************************************************)
LoopRunning == \E i \in LoopIds : loops[i].pc # "idle"

C2_MessagesArePipelineLines ==
  (LoopRunning /\ rxQueue = <<>>) => messages = enqueued

(***************************************************************************)
(* C3: a multi-byte character whose bytes arrive in two chunks is decoded  *)
(* to the character, never to U+FFFD: no message holds a replacement       *)
(* character when the device sent well-formed utf-8.                       *)
(***************************************************************************)
C3_NoReplacementCharacter ==
  \A m \in 1..Len(messages) :
    \A c \in 1..Len(messages[m]) : messages[m][c] # ReplacementChar

(***************************************************************************)
(* C4: after disconnect() returns, the connection is Closed: isConnected   *)
(* is false and the port handle is cleared, also when a release step throws.*)
(***************************************************************************)
DisconnectReturns ==
  {"disconnect:ok", "disconnect:writer-close-threw",
   "disconnect:port-close-threw"}

C4_DisconnectAlwaysCloses ==
  lastEvent \in DisconnectReturns => (~isConnected /\ port = "null")

(***************************************************************************)
(* C5: disconnect() attempts every release step for a handle that existed  *)
(* when it began, even when an earlier step throws.                        *)
(***************************************************************************)
C5_AllReleaseStepsAttempted ==
  lastEvent \in DisconnectReturns => held \subseteq attempted

(***************************************************************************)
(* C6: connect() called while the connection is Open leaves it Open:       *)
(* isConnected stays true, the writer is kept, and an error is reported.   *)
(***************************************************************************)
ConnectReturns == {"connect:ok", "connect:failed", "connect:no-port"}

C6_ConnectWhileOpenStaysOpen ==
  [][(isConnected /\ portState = "opened" /\ lastEvent' \in ConnectReturns)
       => (isConnected' /\ writer' = writer /\ error' # "null")]_vars

(***************************************************************************)
(* C7: whenever isConnected is false, writer is null and no read loop      *)
(* holds a reader.                                                         *)
(***************************************************************************)
C7_HandlesOnlyWhileOpen ==
  ~isConnected =>
     (writer = "null" /\ \A i \in LoopIds : loops[i].rd = "none")

(***************************************************************************)
(* C8: port.close() is never invoked while a read loop still holds its     *)
(* reader or the writer handle is still held.                              *)
(***************************************************************************)
C8_CloseOnlyAfterRelease == ~closedWhileHeld

(***************************************************************************)
(* C9: once stopReading has been called, a read loop that was running      *)
(* appends nothing more to messages.                                       *)
(***************************************************************************)
C9_NothingProcessedAfterStop == lateLoops = {}

(***************************************************************************)
(* C10: a read loop that was running when stopReading was called           *)
(* eventually ends and releases its reader, even if the device stays       *)
(* silent.                                                                 *)
(***************************************************************************)
C10_StoppedLoopTerminates ==
  \A i \in LoopIds : [](loops[i].stopped => <>(loops[i] = IdleLoop))

(***************************************************************************)
(* C11: at most one reader and at most one writer hold the port's streams  *)
(* at any time, whatever handleConnect, handleDisconnect and connect calls *)
(* are made; a connect() that returns while a writer is held has not       *)
(* acquired a second one, and one that succeeds started with none held.    *)
(***************************************************************************)
ActiveReaders == {i \in LoopIds : loops[i].rd = "active"}

MaxListeners == 2
MaxInFlight == 1
MaxNotifications == 1

BleCur ==
  [manager |-> manager, device |-> device, isConnected |-> isBleConnected,
   error |-> bleError, services |-> services,
   currentService |-> currentService,
   currentCharacteristic |-> currentCharacteristic,
   gattConnected |-> gattConnected, managerService |-> managerService,
   listeners |-> listeners, calls |-> bleCalls,
   lastEvent |-> NoBleEvent, staleCommit |-> staleCommit,
   characteristics |-> characteristics, listing |-> listing]

BleCommit(b) ==
  /\ manager' = b.manager
  /\ device' = b.device
  /\ isBleConnected' = b.isConnected
  /\ bleError' = b.error
  /\ services' = b.services
  /\ currentService' = b.currentService
  /\ currentCharacteristic' = b.currentCharacteristic
  /\ gattConnected' = b.gattConnected
  /\ managerService' = b.managerService
  /\ listeners' = b.listeners
  /\ bleCalls' = b.calls
  /\ bleLastEvent' = b.lastEvent
  /\ staleCommit' = b.staleCommit
  /\ characteristics' = b.characteristics
  /\ listing' = b.listing

\* err.message of an exception the platform or the manager raised.
PlatformError == "DOMException"

BleEvent(o, ok) == [op |-> o, ok |-> ok, arg |-> "none"]

\* The same for an operation on a characteristic c.
BleCharEvent(o, ok, c) == [op |-> o, ok |-> ok, arg |-> c]

\* An operation o is suspended at its await.
BlePending(b, o) == b.calls[o].pc # "idle"

\* The adapter operations in flight.
InFlight(b) == {o \in BleOps : BlePending(b, o)}

\* A disconnect happens while operations are in flight.
MarkCrossed(b) ==
  [b EXCEPT !.calls = [o \in BleOps |->
                         IF BlePending(b, o)
                         THEN [b.calls[o] EXCEPT !.crossed = TRUE]
                         ELSE b.calls[o]]]

\* The GATT connection ends: the promises of the GATT requests in flight
\* reject, and the characteristic objects of the connection are gone.
GattDropped(b) ==
  [b EXCEPT !.gattConnected = FALSE,
            !.listeners = [c \in Characteristics |-> 0],
            !.calls = [o \in BleOps |->
                         IF BlePending(b, o) /\ b.calls[o].pc # "requestDevice"
                            /\ b.calls[o].pc # "connect"
                         THEN [b.calls[o] EXCEPT !.doomed = TRUE]
                         ELSE b.calls[o]]]

\* A callback that clears the flag and the device only.
DisconnectCallbackKeepsSelection(b) ==
  [b EXCEPT !.isConnected = FALSE, !.device = "null"]

\* The disconnect callback that connect() hands to connectToServer.
DisconnectCallback(b) ==
  [b EXCEPT !.isConnected = FALSE,
            !.device = "null",
            !.services = {},
            !.currentService = "null",
            !.currentCharacteristic = "null"]

\* A disconnect() that leaves the selected service and characteristic.
BleDisconnectKeepsSelection(b) ==
  LET b1 == MarkCrossed([b EXCEPT !.error = "null"])
      b2 == IF b1.device # "null" /\ b1.gattConnected THEN GattDropped(b1)
            ELSE b1
  IN  [b2 EXCEPT !.isConnected = FALSE,
                 !.device = "null",
                 !.services = {},
                 !.lastEvent = BleEvent("disconnect", TRUE)]

\* disconnect(): gatt.disconnect() when the device is connected, then the
\* reset of the refs.
BleDisconnectCall(b) ==
  LET b1 == MarkCrossed([b EXCEPT !.error = "null"])
      b2 == IF b1.device # "null" /\ b1.gattConnected THEN GattDropped(b1)
            ELSE b1
  IN  [b2 EXCEPT !.isConnected = FALSE,
                 !.device = "null",
                 !.services = {},
                 !.currentService = "null",
                 !.currentCharacteristic = "null",
                 !.lastEvent = BleEvent("disconnect", TRUE)]

\* requestDevice() after the user answered the chooser.
BleRequestDeviceResume(b, granted) ==
  IF granted
  THEN [b EXCEPT !.device = "device",
                 !.lastEvent = BleEvent("requestDevice", TRUE)]
  ELSE [b EXCEPT !.error = "User cancelled the requestDevice() chooser.",
                 !.lastEvent = BleEvent("requestDevice", FALSE)]

\* connect(), up to `await manager.value.connectToServer(...)`.
BleConnectBegin(b) ==
  IF b.manager = "null" \/ b.device = "null"
  THEN [b EXCEPT !.error = "No device selected",
                 !.calls.handleConnect = BleIdleCall,
                 !.lastEvent = BleEvent("connect", FALSE)]
  ELSE [b EXCEPT !.error = "null",
                 !.calls.handleConnect = [BleIdleCall EXCEPT !.pc = "connect"]]

\* handleConnect after connectBle() returned: the service discovery.
BleAfterConnect(b) ==
  IF ~b.isConnected \/ b.device = "null"
  THEN \* not connected, or device.value.gatt throws and is caught
       [b EXCEPT !.calls.handleConnect = BleIdleCall]
  ELSE [b EXCEPT !.calls.handleConnect =
                    [BleIdleCall EXCEPT !.pc = "discover",
                                        !.doomed = ~b.gattConnected]]

\* connect() after the await, then handleConnect goes on.
BleConnectResume(b, ok) ==
  IF ok
  THEN BleAfterConnect(
         [b EXCEPT !.gattConnected = TRUE,
                   !.isConnected = TRUE,
                   !.staleCommit = @ \/ b.calls.handleConnect.crossed,
                   !.lastEvent = BleEvent("connect", TRUE)])
  ELSE BleAfterConnect(
         [b EXCEPT !.error = PlatformError,
                   !.isConnected = FALSE,
                   !.lastEvent = BleEvent("connect", FALSE)])

\* handleConnect from `if (device.value)` on.
BleAfterRequest(b) ==
  IF b.device = "null" THEN [b EXCEPT !.calls.handleConnect = BleIdleCall]
  ELSE LET b1 == BleConnectBegin(b)
       IN  IF BlePending(b1, "handleConnect") THEN b1 ELSE BleAfterConnect(b1)

\* handleConnect after `await device.value.gatt.getPrimaryServices()`; a
\* failure is caught and logged.
BleDiscoverResume(b, ok) ==
  IF ok
  THEN [b EXCEPT !.services = Services,
                 !.staleCommit = @ \/ b.calls.handleConnect.crossed,
                 !.calls.handleConnect = BleIdleCall,
                 !.lastEvent = BleEvent("discover", TRUE)]
  ELSE [b EXCEPT !.calls.handleConnect = BleIdleCall,
                 !.lastEvent = BleEvent("discover", FALSE)]

\* selectService(serviceUuid), up to its await.
BleSelectServiceBegin(b, u) ==
  IF b.manager = "null"
  THEN [b EXCEPT !.error = "Not connected to a device",
                 !.lastEvent = BleEvent("selectService", FALSE)]
  ELSE [b EXCEPT !.error = "null",
                 !.calls.selectService =
                    [BleIdleCall EXCEPT !.pc = "pending", !.arg = u,
                                        !.doomed = ~b.gattConnected
                                                   \/ u \notin Services]]

\* A selectService() that forgets the selection when it fails.
BleSelectServiceClearsOnFailure(b, ok) ==
  LET u == b.calls.selectService.arg
  IN  [b EXCEPT !.managerService = IF ok THEN u ELSE @,
                !.currentService = IF ok THEN u ELSE "null",
                !.error = IF ok THEN @ ELSE PlatformError,
                !.calls.selectService = BleIdleCall,
                !.lastEvent = BleCharEvent("selectService", ok, u)]

\* selectService() after `await manager.value.getService(serviceUuid)`.
BleSelectServiceResume(b, ok) ==
  LET u == b.calls.selectService.arg
  IN  IF ok
      THEN [b EXCEPT !.managerService = u,
                     !.currentService = u,
                     !.staleCommit = @ \/ b.calls.selectService.crossed,
                     !.calls.selectService = BleIdleCall,
                     !.lastEvent = BleCharEvent("selectService", TRUE, u)]
      ELSE [b EXCEPT !.error = PlatformError,
                     !.calls.selectService = BleIdleCall,
                     !.lastEvent = BleCharEvent("selectService", FALSE, u)]

\* selectCharacteristic(charUuid, callback), up to its await.  `view` says
\* that handleCharacteristicSelect made the call.  The manager looks the
\* characteristic up in the service it fetched last.
BleSelectCharacteristicBegin(b, c, view) ==
  IF b.manager = "null" \/ b.currentService = "null"
  THEN [b EXCEPT !.error = "No service selected",
                 !.calls.selectCharacteristic =
                    [BleIdleCall EXCEPT !.pc = IF view THEN "returned"
                                               ELSE "idle"],
                 !.lastEvent = BleCharEvent("selectCharacteristic", FALSE, c)]
  ELSE [b EXCEPT !.error = "null",
                 !.calls.selectCharacteristic =
                    [pc |-> "pending", arg |-> c, svc |-> b.currentService,
                     view |-> view, crossed |-> FALSE,
                     doomed |-> ~b.gattConnected
                                \/ CharService(c) # b.managerService]]

\* A selectCharacteristic() that clears the selection when it fails.
BleSelectCharacteristicClearsOnFailure(b, ok) ==
  LET call == b.calls.selectCharacteristic
  IN  [b EXCEPT !.currentCharacteristic = IF ok THEN call.arg ELSE "null",
                !.error = IF ok THEN @ ELSE PlatformError,
                !.calls.selectCharacteristic =
                   [BleIdleCall EXCEPT !.pc = IF call.view THEN "returned"
                                              ELSE "idle"],
                !.lastEvent = BleCharEvent("selectCharacteristic", ok,
                                           call.arg)]

\* selectCharacteristic() after `await manager.value.getCharacteristic(..)`.
BleSelectCharacteristicResume(b, ok) ==
  LET call == b.calls.selectCharacteristic
      next == [BleIdleCall EXCEPT !.pc = IF call.view THEN "returned"
                                         ELSE "idle"]
  IN  IF ok
      THEN [b EXCEPT !.currentCharacteristic = call.arg,
                     !.staleCommit = @ \/ call.crossed,
                     !.calls.selectCharacteristic = next,
                     !.lastEvent = BleCharEvent("selectCharacteristic", TRUE,
                                                call.arg)]
      ELSE [b EXCEPT !.error = PlatformError,
                     !.calls.selectCharacteristic = next,
                     !.lastEvent = BleCharEvent("selectCharacteristic", FALSE,
                                                call.arg)]

\* startNotifications(callback), up to its await.  The platform rejects
\* the request for a characteristic without the notify property.
BleStartNotificationsBegin(b) ==
  IF b.currentCharacteristic = "null"
  THEN [b EXCEPT !.error = "No characteristic selected",
                 !.lastEvent = BleEvent("startNotifications", FALSE)]
  ELSE [b EXCEPT !.error = "null",
                 !.calls.startNotifications =
                    [BleIdleCall EXCEPT
                       !.pc = "pending",
                       !.arg = b.currentCharacteristic,
                       !.doomed = ~b.gattConnected
                                  \/ ~HasNotify(b.currentCharacteristic)]]

\* A startNotifications() that adds its listener before the await.
BleStartNotificationsListensFirst(b, ok) ==
  LET call == b.calls.startNotifications
      cur  == b.currentCharacteristic
  IN  IF cur # "null"
      THEN [b EXCEPT !.listeners[cur] = @ + 1,
                     !.error = IF ok THEN @ ELSE PlatformError,
                     !.calls.startNotifications = BleIdleCall,
                     !.lastEvent = BleCharEvent("startNotifications", ok,
                                                call.arg)]
      ELSE [b EXCEPT !.error = PlatformError,
                     !.calls.startNotifications = BleIdleCall,
                     !.lastEvent = BleCharEvent("startNotifications", FALSE,
                                                call.arg)]

\* startNotifications() after the await: the listener is added to what
\* currentCharacteristic.value is by now.
BleStartNotificationsResume(b, ok) ==
  LET call == b.calls.startNotifications
      cur  == b.currentCharacteristic
  IN  IF ok /\ cur # "null"
      THEN [b EXCEPT !.listeners[cur] = @ + 1,
                     !.calls.startNotifications = BleIdleCall,
                     !.lastEvent = BleCharEvent("startNotifications", TRUE,
                                                call.arg)]
      ELSE [b EXCEPT !.error = PlatformError,
                     !.calls.startNotifications = BleIdleCall,
                     !.lastEvent = BleCharEvent("startNotifications", FALSE,
                                                call.arg)]

\* A writeValue() that sends the request without looking at the refs.
BleWriteValueUnguarded(b) ==
  [b EXCEPT !.error = "null",
            !.calls.writeValue =
               [BleIdleCall EXCEPT !.pc = "pending",
                                   !.arg = b.currentCharacteristic,
                                   !.doomed = TRUE]]

\* writeValue(data), up to `await manager.value.writeValue(data)`.  The
\* request goes out for whatever characteristic is selected; the device
\* refuses a write to a characteristic that cannot be written.
BleWriteValueBegin(b) ==
  IF b.manager = "null" \/ b.currentCharacteristic = "null"
  THEN [b EXCEPT !.error = "No characteristic selected",
                 !.lastEvent = BleEvent("writeValue", FALSE)]
  ELSE [b EXCEPT !.error = "null",
                 !.calls.writeValue =
                    [BleIdleCall EXCEPT
                       !.pc = "pending",
                       !.arg = b.currentCharacteristic,
                       !.doomed = ~b.gattConnected
                                  \/ ~HasWrite(b.currentCharacteristic)]]

\* writeValue() after the await.
BleWriteValueResume(b, ok) ==
  LET call == b.calls.writeValue
  IN  IF ok
      THEN [b EXCEPT !.calls.writeValue = BleIdleCall,
                     !.lastEvent = BleCharEvent("writeValue", TRUE, call.arg)]
      ELSE [b EXCEPT !.error = PlatformError,
                     !.calls.writeValue = BleIdleCall,
                     !.lastEvent = BleCharEvent("writeValue", FALSE, call.arg)]

\* handleCharacteristicSelect after selectCharacteristic() returned.
BleAfterSelectCharacteristic(b) ==
  LET b1 == [b EXCEPT !.calls.selectCharacteristic = BleIdleCall]
  IN  IF b1.currentCharacteristic # "null"
         /\ HasNotify(b1.currentCharacteristic)
      THEN BleStartNotificationsBegin(b1)
      ELSE b1

\* Runs handleCharacteristicSelect on when its selectCharacteristic()
\* has returned.
BleContinue(b) ==
  IF b.calls.selectCharacteristic.pc = "returned"
  THEN BleAfterSelectCharacteristic(b) ELSE b

\* getServices(), up to `await manager.value.getServices()`.
BleGetServicesBegin(b) ==
  IF b.manager = "null"
  THEN [b EXCEPT !.error = "Not connected to a device",
                 !.lastEvent = BleEvent("getServices", FALSE)]
  ELSE [b EXCEPT !.error = "null",
                 !.calls.getServices =
                    [BleIdleCall EXCEPT !.pc = "pending",
                                        !.doomed = ~b.gattConnected]]

\* getServices() after the await.
BleGetServicesResume(b, ok) ==
  IF ok
  THEN [b EXCEPT !.services = Services,
                 !.staleCommit = @ \/ b.calls.getServices.crossed,
                 !.calls.getServices = BleIdleCall,
                 !.lastEvent = BleEvent("getServices", TRUE)]
  ELSE [b EXCEPT !.error = PlatformError,
                 !.calls.getServices = BleIdleCall,
                 !.lastEvent = BleEvent("getServices", FALSE)]

\* handleServiceSelect after getCharacteristics() returned: the list is
\* stored, and a single writable characteristic is selected.
BleAfterGetCharacteristics(b) ==
  LET b1 == [b EXCEPT !.characteristics = b.listing]
      writableChars == SelectSeq(b1.characteristics, HasWrite)
  IN  IF Len(writableChars) = 1
      THEN BleContinue(BleSelectCharacteristicBegin(b1, writableChars[1], TRUE))
      ELSE b1

\* A getCharacteristics() that asks the manager whatever the refs hold.
BleGetCharacteristicsUnguarded(b, view) ==
  [b EXCEPT !.error = "null",
            !.calls.getCharacteristics =
               [BleIdleCall EXCEPT !.pc = "pending",
                                   !.svc = b.managerService,
                                   !.view = view,
                                   !.doomed = ~b.gattConnected
                                              \/ b.managerService = "none"]]

\* getCharacteristics(), up to `await manager.value.getCharacteristics()`.
\* `view` says that handleServiceSelect made the call.  The manager lists
\* the service it fetched last.
BleGetCharacteristicsBegin(b, view) ==
  IF b.manager = "null" \/ b.currentService = "null"
  THEN LET b1 == [b EXCEPT !.error = "No service selected",
                           !.listing = <<>>,
                           !.lastEvent = BleEvent("getCharacteristics", FALSE)]
       IN  IF view THEN BleAfterGetCharacteristics(b1) ELSE b1
  ELSE [b EXCEPT !.error = "null",
                 !.calls.getCharacteristics =
                    [BleIdleCall EXCEPT !.pc = "pending",
                                        !.svc = b.managerService,
                                        !.view = view,
                                        !.doomed = ~b.gattConnected
                                                   \/ b.managerService = "none"]]

\* getCharacteristics() after the await; on a failure it returns [].
BleGetCharacteristicsResume(b, ok) ==
  LET call == b.calls.getCharacteristics
      b1 == IF ok
            THEN [b EXCEPT !.listing = ServiceCharacteristics(call.svc),
                           !.calls.getCharacteristics = BleIdleCall,
                           !.lastEvent = BleEvent("getCharacteristics", TRUE)]
            ELSE [b EXCEPT !.error = PlatformError,
                           !.listing = <<>>,
                           !.calls.getCharacteristics = BleIdleCall,
                           !.lastEvent = BleEvent("getCharacteristics", FALSE)]
  IN  IF call.view THEN BleAfterGetCharacteristics(b1) ELSE b1

\* handleServiceSelect after selectService() returned.
BleAfterSelectService(b) ==
  IF b.currentService # "null" THEN BleGetCharacteristicsBegin(b, TRUE)
  ELSE b

\* handleServiceSelect, up to the await of its selectService().
BleHandleServiceSelectBegin(b, u) ==
  LET b1 == BleSelectServiceBegin(b, u)
  IN  IF BlePending(b1, "selectService")
      THEN [b1 EXCEPT !.calls.selectService.view = TRUE]
      ELSE BleAfterSelectService(b1)

\* The view's handleDisconnect in Bluetooth mode: disconnect(), then the
\* view's lists are emptied.
BleHandleDisconnectCall(b) ==
  [BleDisconnectCall(b) EXCEPT !.services = {}, !.characteristics = <<>>]

(***************************************************************************)
(* Actions of the Bluetooth session.                                       *)
(***************************************************************************)

\* The Connect button in Bluetooth mode.
BleHandleConnect ==
  /\ connectionType = "ble"
  /\ Cardinality(InFlight(BleCur)) < MaxInFlight
  /\ ~BlePending(BleCur, "handleConnect")
  /\ ~isBleConnected
  /\ IF device = "null"
     THEN \* requestDevice(): error.value = null, initManager(), the chooser
          BleCommit([BleCur EXCEPT !.error = "null",
                                   !.manager = "manager",
                                   !.calls.handleConnect =
                                      [BleIdleCall EXCEPT !.pc = "requestDevice"]])
     ELSE BleCommit(BleAfterRequest(BleCur))
  /\ UNCHANGED <<framingVars, serialVars>>

\* The user answers the device chooser.
BleRequestDeviceDone ==
  /\ bleCalls.handleConnect.pc = "requestDevice"
  /\ \E granted \in BOOLEAN :
       BleCommit(BleAfterRequest(BleRequestDeviceResume(BleCur, granted)))
  /\ UNCHANGED <<framingVars, serialVars>>

\* connectToServer() settles.
BleConnectDone ==
  /\ bleCalls.handleConnect.pc = "connect"
  /\ \E ok \in BOOLEAN : BleCommit(BleConnectResume(BleCur, ok))
  /\ UNCHANGED <<framingVars, serialVars>>

\* getPrimaryServices() of handleConnect settles.
BleDiscoverDone ==
  /\ bleCalls.handleConnect.pc = "discover"
  /\ \E ok \in BOOLEAN :
       /\ ok => ~bleCalls.handleConnect.doomed
       /\ BleCommit(BleDiscoverResume(BleCur, ok))
  /\ UNCHANGED <<framingVars, serialVars>>

\* selectService(u) is called (handleServiceSelect, or any other user).
BleSelectService ==
  /\ Cardinality(InFlight(BleCur)) < MaxInFlight
  /\ ~BlePending(BleCur, "selectService")
  /\ \E u \in ServiceIds : BleCommit(BleSelectServiceBegin(BleCur, u))
  /\ UNCHANGED <<framingVars, serialVars>>

\* getService() settles; a handleServiceSelect that made the call goes on.
BleSelectServiceDone ==
  /\ BlePending(BleCur, "selectService")
  /\ \E ok \in BOOLEAN :
       /\ ok => ~bleCalls.selectService.doomed
       /\ BleCommit(IF bleCalls.selectService.view
                    THEN BleAfterSelectService(BleSelectServiceResume(BleCur, ok))
                    ELSE BleSelectServiceResume(BleCur, ok))
  /\ UNCHANGED <<framingVars, serialVars>>

\* The user picks a service in the list: handleServiceSelect runs.
BleHandleServiceSelect ==
  /\ connectionType = "ble"
  /\ isBleConnected
  /\ Cardinality(InFlight(BleCur)) < MaxInFlight
  /\ \E u \in services : BleCommit(BleHandleServiceSelectBegin(BleCur, u))
  /\ UNCHANGED <<framingVars, serialVars>>

\* getCharacteristics() is called on the composable.
BleGetCharacteristics ==
  /\ Cardinality(InFlight(BleCur)) < MaxInFlight
  /\ BleCommit(BleGetCharacteristicsBegin(BleCur, FALSE))
  /\ UNCHANGED <<framingVars, serialVars>>

BleGetCharacteristicsDone ==
  /\ BlePending(BleCur, "getCharacteristics")
  /\ \E ok \in BOOLEAN :
       /\ ok => ~bleCalls.getCharacteristics.doomed
       /\ BleCommit(BleGetCharacteristicsResume(BleCur, ok))
  /\ UNCHANGED <<framingVars, serialVars>>

\* getServices() is called on the composable.
BleGetServices ==
  /\ Cardinality(InFlight(BleCur)) < MaxInFlight
  /\ BleCommit(BleGetServicesBegin(BleCur))
  /\ UNCHANGED <<framingVars, serialVars>>

BleGetServicesDone ==
  /\ BlePending(BleCur, "getServices")
  /\ \E ok \in BOOLEAN :
       /\ ok => ~bleCalls.getServices.doomed
       /\ BleCommit(BleGetServicesResume(BleCur, ok))
  /\ UNCHANGED <<framingVars, serialVars>>

\* handleCharacteristicSelect (view), or selectCharacteristic called by
\* another user of the composable.
BleSelectCharacteristic ==
  /\ Cardinality(InFlight(BleCur)) < MaxInFlight
  /\ ~BlePending(BleCur, "selectCharacteristic")
  /\ \E c \in Characteristics, view \in BOOLEAN :
       /\ view => ~BlePending(BleCur, "startNotifications")
       /\ BleCommit(BleContinue(BleSelectCharacteristicBegin(BleCur, c, view)))
  /\ UNCHANGED <<framingVars, serialVars>>

BleSelectCharacteristicDone ==
  /\ BlePending(BleCur, "selectCharacteristic")
  /\ bleCalls.selectCharacteristic.view
       => ~BlePending(BleCur, "startNotifications")
  /\ \E ok \in BOOLEAN :
       /\ ok => ~bleCalls.selectCharacteristic.doomed
       /\ BleCommit(BleContinue(BleSelectCharacteristicResume(BleCur, ok)))
  /\ UNCHANGED <<framingVars, serialVars>>

\* startNotifications(callback) is called on the composable.
BleStartNotifications ==
  /\ Cardinality(InFlight(BleCur)) < MaxInFlight
  /\ ~BlePending(BleCur, "startNotifications")
  /\ BleCommit(BleStartNotificationsBegin(BleCur))
  /\ UNCHANGED <<framingVars, serialVars>>

BleStartNotificationsDone ==
  /\ BlePending(BleCur, "startNotifications")
  /\ \E ok \in BOOLEAN :
       /\ ok => ~bleCalls.startNotifications.doomed
       /\ (ok /\ currentCharacteristic # "null")
            => listeners[currentCharacteristic] < MaxListeners
       /\ BleCommit(BleStartNotificationsResume(BleCur, ok))
  /\ UNCHANGED <<framingVars, serialVars>>

\* writeValue(data) is called on the composable (sendMessage, or any
\* other user).
BleWriteValue ==
  /\ Cardinality(InFlight(BleCur)) < MaxInFlight
  /\ ~BlePending(BleCur, "writeValue")
  /\ BleCommit(BleWriteValueBegin(BleCur))
  /\ UNCHANGED <<framingVars, serialVars>>

BleWriteValueDone ==
  /\ BlePending(BleCur, "writeValue")
  /\ \E ok \in BOOLEAN :
       /\ ok => ~bleCalls.writeValue.doomed
       /\ BleCommit(BleWriteValueResume(BleCur, ok))
  /\ UNCHANGED <<framingVars, serialVars>>

\* disconnect() is called (handleDisconnect, onUnmounted).
BleDisconnect ==
  /\ BleCommit(BleDisconnectCall(BleCur))
  /\ UNCHANGED <<framingVars, serialVars>>

\* The Disconnect button in Bluetooth mode, shown while connected.
BleHandleDisconnect ==
  /\ connectionType = "ble"
  /\ isBleConnected
  /\ BleCommit(BleHandleDisconnectCall(BleCur))
  /\ UNCHANGED <<framingVars, serialVars>>

\* The remote side ends the connection: the disconnect callback runs.
BleRemoteDisconnect ==
  /\ gattConnected
  /\ BleCommit([DisconnectCallback(GattDropped(MarkCrossed(BleCur)))
                  EXCEPT !.lastEvent =
                           BleEvent("gattserverdisconnected", TRUE)])
  /\ UNCHANGED <<framingVars, serialVars>>

\* A subscribed characteristic's value changes: every listener pushes
\* one message.  The device notifies only after a startNotifications().
RECURSIVE Copies(_, _)
Copies(n, m) == IF n = 0 THEN <<>> ELSE <<m>> \o Copies(n - 1, m)

BleNotify ==
  /\ gattConnected
  /\ delivered < MaxNotifications
  /\ \E c \in Characteristics :
       /\ HasNotify(c)
       /\ listeners[c] > 0
       /\ messages' = messages \o Copies(listeners[c], <<97>>)
       /\ BleCommit([BleCur EXCEPT !.lastEvent =
                                      BleEvent("notify", TRUE)])
  /\ delivered' = delivered + 1
  /\ UNCHANGED <<framingVars, portState, writable, rxQueue, piped,
                 pendingWrites, lastWrite, adapterVars, connectionType,
                 isReading, serialReader, inputMessage, loops, calls,
                 historyVars>>

NextBle ==
  \/ BleHandleConnect
  \/ BleRequestDeviceDone
  \/ BleConnectDone
  \/ BleDiscoverDone
  \/ BleSelectService
  \/ BleSelectServiceDone
  \/ BleSelectCharacteristic
  \/ BleSelectCharacteristicDone
  \/ BleStartNotifications
  \/ BleStartNotificationsDone
  \/ BleDisconnect
  \/ BleRemoteDisconnect
  \/ BleNotify

SpecBle == InitBle /\ [][NextBle]_vars

\* The Bluetooth session of a page that sends: connect, select, write.
NextBleWrite ==
  \/ BleHandleConnect
  \/ BleRequestDeviceDone
  \/ BleConnectDone
  \/ BleDiscoverDone
  \/ BleSelectService
  \/ BleSelectServiceDone
  \/ BleSelectCharacteristic
  \/ BleSelectCharacteristicDone
  \/ BleStartNotificationsDone
  \/ BleWriteValue
  \/ BleWriteValueDone
  \/ BleDisconnect
  \/ BleRemoteDisconnect

SpecBleWrite == InitBle /\ [][NextBleWrite]_vars

\* The Bluetooth session of a page whose user browses the device: connect,
\* pick a service, list and select characteristics.
NextBleBrowse ==
  \/ BleHandleConnect
  \/ BleRequestDeviceDone
  \/ BleConnectDone
  \/ BleDiscoverDone
  \/ BleHandleServiceSelect
  \/ BleSelectServiceDone
  \/ BleGetCharacteristics
  \/ BleGetCharacteristicsDone
  \/ BleSelectCharacteristic
  \/ BleSelectCharacteristicDone
  \/ BleStartNotificationsDone
  \/ BleHandleDisconnect
  \/ BleDisconnect
  \/ BleRemoteDisconnect

SpecBleBrowse == InitBle /\ [][NextBleBrowse]_vars

\* The Bluetooth session of a user of the composable who lists and selects
\* services.
NextBleServices ==
  \/ BleHandleConnect
  \/ BleRequestDeviceDone
  \/ BleConnectDone
  \/ BleDiscoverDone
  \/ BleGetServices
  \/ BleGetServicesDone
  \/ BleSelectService
  \/ BleSelectServiceDone
  \/ BleDisconnect
  \/ BleRemoteDisconnect

SpecBleServices == InitBle /\ [][NextBleServices]_vars

(***************************************************************************)
(* C12: when the remote side disconnects, the disconnect callback leaves   *)
(* isConnected false, services empty, currentService and                   *)
(* currentCharacteristic null, whatever the adapter was doing and without  *)
(* a call of disconnect().                                                 *)
(***************************************************************************)
C12_RemoteDisconnectResets ==
  [][bleLastEvent'.op = "gattserverdisconnected"
       => (/\ ~isBleConnected'
           /\ services' = {}
           /\ currentService' = "null"
           /\ currentCharacteristic' = "null")]_vars

\* The remote side disconnected while an operation was in flight.
C12_Witness ==
  /\ bleLastEvent.op = "gattserverdisconnected"
  /\ \E o \in BleOps : bleCalls[o].crossed
  /\ ~isBleConnected
  /\ currentService = "null"

(***************************************************************************)
(* C13: an adapter operation that began before a disconnect and ends       *)
(* after it stores no result: it sets none of isConnected, services,       *)
(* currentService, currentCharacteristic.                                  *)
(***************************************************************************)
C13_NoCommitAfterDisconnect == ~staleCommit

(***************************************************************************)
(* C14: the selected characteristic, when there is one, belongs to the     *)
(* selected service.                                                       *)
(***************************************************************************)
C14_CharacteristicOfCurrentService ==
  currentCharacteristic # "null"
    => CharService(currentCharacteristic) = currentService

(***************************************************************************)
(* C15: right after a successful selectService, currentCharacteristic is   *)
(* null.                                                                   *)
(***************************************************************************)
C15_SelectServiceClearsCharacteristic ==
  [][(bleLastEvent'.op = "selectService" /\ bleLastEvent'.ok)
       => currentCharacteristic' = "null"]_vars

(***************************************************************************)
(* C16: whatever selections and startNotifications calls are made, a       *)
(* characteristic carries at most one change listener, so that a value     *)
(* change appends one message.                                             *)
(***************************************************************************)
C16_SingleChangeListener == \A c \in Characteristics : listeners[c] <= 1

(***************************************************************************)
(* C17: startNotifications on a selected characteristic without the        *)
(* notify property fails with an error, adds no listener and leaves        *)
(* currentCharacteristic as it was.                                        *)
(***************************************************************************)
C17_SubscribeWithoutNotifyFails ==
  [][(/\ bleLastEvent'.op = "startNotifications"
      /\ bleCalls.startNotifications.pc = "pending"
      /\ ~HasNotify(bleCalls.startNotifications.arg))
       => (/\ ~bleLastEvent'.ok
           /\ bleError' # "null"
           /\ listeners' = listeners
           /\ currentCharacteristic' = currentCharacteristic)]_vars

\* startNotifications failed on "b1", selected on a live connection.
C17_Witness ==
  /\ bleLastEvent = BleCharEvent("startNotifications", FALSE, "b1")
  /\ currentCharacteristic = "b1"
  /\ gattConnected
  /\ listeners["b1"] = 0
  /\ bleError = PlatformError

(***************************************************************************)
(* C18: selectCharacteristic with an identifier that is not in the service *)
(* selected when it was called fails with an error and leaves              *)
(* currentService and currentCharacteristic as they were.  The error is in *)
(* place when selectCharacteristic returns; handleCharacteristicSelect may *)
(* go on to startNotifications on the characteristic that is still         *)
(* selected, which clears it.                                              *)
(***************************************************************************)
C18_SelectForeignCharacteristicFails ==
  [][(/\ bleLastEvent'.op = "selectCharacteristic"
      /\ bleCalls.selectCharacteristic.pc = "pending"
      /\ CharService(bleCalls.selectCharacteristic.arg)
           # bleCalls.selectCharacteristic.svc)
       => (/\ ~bleLastEvent'.ok
           /\ currentService' = currentService
           /\ currentCharacteristic' = currentCharacteristic
           /\ \/ bleError' # "null"
              \/ bleCalls'.startNotifications.pc = "pending")]_vars

\* "b1" of service B was asked for while A and its "a1" were selected.
C18_Witness ==
  /\ bleLastEvent = BleCharEvent("selectCharacteristic", FALSE, "b1")
  /\ gattConnected
  /\ currentService = "A"
  /\ currentCharacteristic = "a1"
  /\ bleError = PlatformError

(***************************************************************************)
(* C19: a transport error during a read ends the read loop, releases its   *)
(* reader, and is reported in the error ref.                               *)
(***************************************************************************)
C19_ReadErrorSurfaced ==
  lastEvent = "read:error"
    => (error # "null" /\ \A i \in LoopIds : loops[i].rd # "errored")

(***************************************************************************)
(* C20: at most one write on the writer is in flight at any time; a        *)
(* second write() does not reach the writer before the first has settled.  *)
(***************************************************************************)
C20_WritesSerialized == pendingWrites <= 1

(***************************************************************************)
(* C21: write() called while there is no writer hands nothing to the       *)
(* transport, sets error to 'No active connection', and changes nothing    *)
(* else of the adapter or of the port.                                     *)
(***************************************************************************)
WriteReturns == {"write:no-connection", "write:failed", "write:ok"}

C21_WriteWithoutWriterOnlyReports ==
  [][(writer = "null"
      /\ (pendingWrites' # pendingWrites \/ lastEvent' \in WriteReturns))
       => /\ lastEvent' = "write:no-connection"
          /\ error' = "No active connection"
          /\ pendingWrites' = pendingWrites
          /\ UNCHANGED <<portState, writable, rxQueue, piped, lastWrite,
                         port, isConnected, reader, writer, isReading,
                         serialReader, messages, loops, calls>>]_vars

C21_Witness ==
  /\ lastEvent = "write:no-connection"
  /\ error = "No active connection"
  /\ writer = "null"
  /\ pendingWrites = 0

(***************************************************************************)
(* C22: a sendMessage with a non-blank input on a connection whose writer  *)
(* takes the chunk hands exactly one chunk to the writer, the UTF-8        *)
(* encoding of the input followed by one line feed; write() encodes what   *)
(* it is given and nothing else; a blank input hands over nothing.         *)
(***************************************************************************)
WriterOpen ==
  /\ writer # "null"
  /\ writable = "locked"
  /\ \A k \in DOMAIN calls : calls[k] # "writerClose"

C22_OneWritePerMessage ==
  [][/\ (pendingWrites' > pendingWrites \/ lastWrite' # lastWrite)
          => /\ ~IsBlank(inputMessage')
             /\ pendingWrites' = pendingWrites + 1
             /\ lastWrite' = Utf8Encode(inputMessage') \o <<LF>>
     /\ (/\ WriterOpen
         /\ ~IsBlank(inputMessage')
         /\ <<inputMessage', pendingWrites'>> # <<inputMessage, pendingWrites>>)
          => pendingWrites' = pendingWrites + 1]_vars

C22_Witness ==
  /\ pendingWrites = 1
  /\ inputMessage = <<8364>>
  /\ lastWrite = <<226, 130, 172, LF>>

(***************************************************************************)
(* C23: writeValue() called while no characteristic is selected sends no   *)
(* write request, sets error to 'No characteristic selected', and changes  *)
(* nothing else.                                                           *)
(***************************************************************************)
C23_WriteWithoutCharacteristicOnlyReports ==
  [][(/\ currentCharacteristic = "null"
      /\ bleCalls.writeValue.pc = "idle"
      /\ (bleLastEvent'.op = "writeValue"
          \/ bleCalls'.writeValue # bleCalls.writeValue))
       => /\ bleLastEvent' = BleEvent("writeValue", FALSE)
          /\ bleError' = "No characteristic selected"
          /\ UNCHANGED <<manager, device, isBleConnected, services,
                         currentService, currentCharacteristic, gattConnected,
                         managerService, listeners, bleCalls, staleCommit>>]_vars

C23_Witness ==
  /\ bleLastEvent = BleEvent("writeValue", FALSE)
  /\ bleError = "No characteristic selected"
  /\ isBleConnected
  /\ currentService # "null"
  /\ currentCharacteristic = "null"

(***************************************************************************)
(* C24: no write request is sent for a selected characteristic that has    *)
(* neither the write nor the writeWithoutResponse property: writeValue     *)
(* fails before anything goes to the device.                               *)
(***************************************************************************)
C24_NoWriteToUnwritable ==
  bleCalls.writeValue.pc = "pending" => HasWrite(bleCalls.writeValue.arg)

(***************************************************************************)
(* C25: when disconnect() returns, whatever the state it was called in,    *)
(* isConnected is false, services is empty, currentService and             *)
(* currentCharacteristic are null.                                         *)
(***************************************************************************)
C25_DisconnectResets ==
  [][bleLastEvent'.op = "disconnect"
       => /\ ~isBleConnected'
          /\ services' = {}
          /\ currentService' = "null"
          /\ currentCharacteristic' = "null"
          /\ device' \in {"null", "device"}]_vars

C25_Witness ==
  /\ bleLastEvent.op = "disconnect"
  /\ \E o \in BleOps : bleCalls[o].crossed /\ bleCalls[o].svc # "none"
  /\ device = "null"
  /\ ~isBleConnected
  /\ services = {}
  /\ currentService = "null"
  /\ currentCharacteristic = "null"

(***************************************************************************)
(* C27: every failed step of an adapter operation or of the connect flow   *)
(* leaves its message in the adapter's error ref.                          *)
(***************************************************************************)
C27_FailuresRecorded == ~bleLastEvent.ok => bleError # "null"

(***************************************************************************)
(* C30: selectService(id) for an id the device does not expose fails       *)
(* with an error and leaves currentService as it was.                      *)
(***************************************************************************)
C30_SelectUnknownServiceFails ==
  [][(/\ bleCalls.selectService.pc = "pending"
      /\ bleCalls.selectService.arg \notin Services
      /\ bleCalls'.selectService.pc = "idle")
       => /\ bleLastEvent' = BleCharEvent("selectService", FALSE, "X")
          /\ bleError' # "null"
          /\ currentService' = currentService]_vars

C30_Witness ==
  /\ bleLastEvent = BleCharEvent("selectService", FALSE, "X")
  /\ gattConnected
  /\ currentService \in Services
  /\ bleError # "null"

(***************************************************************************)
(* The view with both transports: the two connect flows and the           *)
(* connection type buttons.                                                *)
(***************************************************************************)
ConnectionTypes == {"serial", "ble"}

\* The view's computed isConnected: that of the active adapter.
ActiveConnected ==
  IF connectionType = "serial" THEN isConnected ELSE isBleConnected

\* A connection type button (disabled while the view's isConnected).
SelectConnectionType ==
  /\ ~ActiveConnected
  /\ \E t \in ConnectionTypes :
       /\ t # connectionType
       /\ Commit([Cur EXCEPT !.connectionType = t])
  /\ UNCHANGED <<framingVars, delivered>>

NextSwitch ==
  \/ SelectConnectionType
  \/ HandleConnect
  \/ RequestPortDone
  \/ OpenDone
  \/ BleHandleConnect
  \/ BleRequestDeviceDone
  \/ BleConnectDone
  \/ BleDiscoverDone

SpecSwitch == Init /\ [][NextSwitch]_vars

(***************************************************************************)
(* C26: the serial adapter and the Bluetooth adapter are never connected   *)
(* at the same time, the connection type changing only while the active    *)
(* adapter is disconnected.                                                *)
(***************************************************************************)
C26_OneAdapterConnected == ~(isConnected /\ isBleConnected)

(***************************************************************************)
(* C28: when the user dismisses the port prompt or the device chooser,     *)
(* the request returns to its caller with the adapter's error set, no      *)
(* port or device granted, the adapter not connected, and the handler      *)
(* idle again, so that Connect can be pressed once more.                   *)
(***************************************************************************)
C28_CancelIsRecoverable ==
  [][/\ (/\ calls.handleConnect = "requestPort"
         /\ calls'.handleConnect # "requestPort"
         /\ port' = "null")
          => /\ lastEvent' = "requestPort:failed"
             /\ error' # "null"
             /\ ~isConnected'
             /\ calls'.handleConnect = "idle"
     /\ (/\ bleCalls.handleConnect.pc = "requestDevice"
         /\ bleCalls'.handleConnect.pc # "requestDevice"
         /\ device' = "null")
          => /\ bleLastEvent' = BleEvent("requestDevice", FALSE)
             /\ bleError' # "null"
             /\ ~isBleConnected'
             /\ bleCalls'.handleConnect.pc = "idle"]_vars

C28_Witness ==
  /\ lastEvent = "requestPort:failed"
  /\ bleLastEvent = BleEvent("requestDevice", FALSE)
  /\ port = "null"
  /\ device = "null"
  /\ error # "null"
  /\ bleError # "null"

(***************************************************************************)
(* C29: stopReading() with no reader to stop returns at once and changes   *)
(* nothing but isReading, which it leaves false; and a stopReading() that  *)
(* follows a completed stopReading() (its cancel, if any, resolved)        *)
(* changes nothing at all.                                                 *)
(***************************************************************************)
\* The refs and the platform state, without the bookkeeping of the calls.
ProgramState(s) ==
  <<s.portState, s.writable, s.rxQueue, s.piped, s.pendingWrites, s.lastWrite,
    s.port, s.isConnected, s.error, s.reader, s.writer, s.connectionType,
    s.isReading, s.serialReader, s.messages, s.inputMessage,
    [i \in LoopIds |-> <<s.loops[i].pc, s.loops[i].rd>>]>>

\* A whole stopReading() whose cancel resolves.
Stopped(s) ==
  LET s1 == StopReadingBegin(s, "handleDisconnect")
  IN  IF s1.calls.handleDisconnect = "cancel"
      THEN StopReadingResume(s1, "handleDisconnect", TRUE) ELSE s1

HasLF(s) == \E i \in 1..Len(s) : s[i] = LF

\* The part of the text the upstream has delivered so far.
Consumed == SubSeq(text, 1, Len(text) - Len(rest))

RECURSIVE JoinLines(_)
JoinLines(ls) ==
  IF ls = <<>> THEN <<>>
  ELSE Head(ls) \o <<LF>> \o JoinLines(Tail(ls))

C33_BufferHoldsNoDelimiter ==
  /\ ~HasLF(buffer)
  /\ ~flushed => JoinLines(enqueued) \o buffer = Consumed

\* Two transform calls, a line emitted and a partial line pending.
C33_Witness ==
  /\ ~flushed
  /\ Len(chunks) >= 2
  /\ Len(enqueued) >= 1
  /\ buffer # <<>>
  /\ HasLF(chunks[1])

(***************************************************************************)
(* C34: flush emits the pending buffer as exactly one final line when it   *)
(* is non-empty and nothing when it is empty, and after flush the pending  *)
(* buffer is empty.                                                        *)
(***************************************************************************)
C34_FlushEmitsAndClears ==
  [][(~flushed /\ flushed') =>
       /\ enqueued' = enqueued \o (IF buffer # <<>> THEN <<buffer>> ELSE <<>>)
       /\ buffer' = <<>>]_vars

(***************************************************************************)
(* C35: only LF is a line delimiter: the number of lines emitted by the    *)
(* transform calls is the number of LF received, no emitted line holds an  *)
(* LF, and every CR received is still there, inside an emitted line or the *)
(* pending buffer.                                                         *)
(***************************************************************************)
Occurrences(c, s) == Cardinality({i \in 1..Len(s) : s[i] = c})

CarriageReturns(s) == Occurrences(13, s)

C37_LoopClearsOnlyItsOwnReader ==
  [][\A i \in LoopIds :
       ( /\ loops[i].pc # "idle"
         /\ loops'[i].pc = "idle"
         /\ serialReader \notin {0, i}
         /\ loops'[serialReader].pc # "idle"
         /\ loops'[serialReader].rd = "active" )
       => serialReader' = serialReader]_vars

(***************************************************************************)
(* C38: when the read loop ends, for whatever reason, and no other loop is *)
(* running, isReading is false and the lock on the readable stream has     *)
(* been released.                                                          *)
(***************************************************************************)
C38_LoopEndClearsIsReading ==
  [][\A i \in LoopIds :
       ( /\ loops[i].pc # "idle"
         /\ loops'[i].pc = "idle"
         /\ ~LoopRunning' )
       => (~isReading' /\ loops'[i].rd = "none")]_vars

(***************************************************************************)
(* C36: in every reachable state of the BLE adapter and the view driving   *)
(* it, whenever isConnected is false the downstream state is empty:        *)
(* services is empty and currentService and currentCharacteristic are      *)
(* null.                                                                   *)
(***************************************************************************)
C36_DisconnectedMeansEmpty ==
  ~isBleConnected =>
    /\ services = {}
    /\ currentService = "null"
    /\ currentCharacteristic = "null"

(***************************************************************************)
(* C31: getCharacteristics and selectCharacteristic called while no        *)
(* service is selected (before the call and after it) issue no request to  *)
(* the manager, set error to 'No service selected' and leave               *)
(* currentCharacteristic unchanged; getCharacteristics returns an empty    *)
(* list.                                                                   *)
(***************************************************************************)
C31_NoServiceOnlyReports ==
  [][(currentService = "null" /\ currentService' = "null") =>
       /\ bleCalls.getCharacteristics.pc = "idle"
            => /\ bleCalls'.getCharacteristics.pc = "idle"
               /\ bleLastEvent'.op = "getCharacteristics"
                    => /\ bleError' = "No service selected"
                       /\ listing' = <<>>
                       /\ currentCharacteristic' = currentCharacteristic
       /\ bleCalls.selectCharacteristic.pc = "idle"
            => /\ bleCalls'.selectCharacteristic.pc = "idle"
               /\ (/\ bleLastEvent'.op = "selectCharacteristic"
                   /\ bleCalls'.startNotifications.pc = "idle")
                    => /\ bleError' = "No service selected"
                       /\ currentCharacteristic' = currentCharacteristic]_vars

\* A connected adapter with no service selected has refused a listing.
C31_Witness ==
  /\ isBleConnected
  /\ gattConnected
  /\ currentService = "null"
  /\ bleLastEvent = BleEvent("getCharacteristics", FALSE)
  /\ bleError = "No service selected"
  /\ bleCalls.getCharacteristics.pc = "idle"

(***************************************************************************)
(* C32: getServices and selectService called while the adapter is not      *)
(* connected issue no request to the manager, set error to                 *)
(* 'Not connected to a device', and set neither services nor               *)
(* currentService.                                                         *)
(***************************************************************************)
C32_NotConnectedOnlyReports ==
  [][~isBleConnected =>
       /\ bleCalls.getServices.pc = "idle"
            => /\ bleCalls'.getServices.pc = "idle"
               /\ bleLastEvent'.op = "getServices"
                    => /\ bleError' = "Not connected to a device"
                       /\ services' = services
       /\ bleCalls.selectService.pc = "idle"
            => /\ bleCalls'.selectService.pc = "idle"
               /\ bleLastEvent'.op = "selectService"
                    => /\ bleError' = "Not connected to a device"
                       /\ currentService' = currentService]_vars

(***************************************************************************)
(* C39: when handleServiceSelect has selected a service and stored its     *)
(* characteristics, and at least one of them is writable, it goes on to    *)
(* select the first writable one.                                          *)
(***************************************************************************)
C39_AutoSelectsFirstWritable ==
  [][( /\ bleCalls.getCharacteristics.pc = "pending"
       /\ bleCalls.getCharacteristics.view
       /\ bleLastEvent' = BleEvent("getCharacteristics", TRUE)
       /\ currentService' # "null"
       /\ SelectSeq(characteristics', HasWrite) # <<>> )
     => /\ bleCalls'.selectCharacteristic.pc = "pending"
        /\ bleCalls'.selectCharacteristic.arg
             = Head(SelectSeq(characteristics', HasWrite))]_vars

(***************************************************************************)
(* The number conversions as a state machine: one number is encoded, and   *)
(* the bytes are read back with some type.                                 *)
(***************************************************************************)
InitNumber ==
  /\ text = <<>>
  /\ rest = <<>>
  /\ chunks = <<>>
  /\ buffer = <<>>
  /\ enqueued = <<>>
  /\ flushed = FALSE
  /\ decoderPending = <<>>
  /\ num \in Numbers
  /\ byteLength \in ByteLengths
  /\ encoded = NoOutcome
  /\ decoded = NoOutcome
  /\ SessionInit

\* numberToUint8Array(num, byteLength) is called.
Encode ==
  /\ encoded.st = "none"
  /\ encoded' = NumberToUint8Array(num, byteLength)
  /\ UNCHANGED <<text, rest, chunks, buffer, enqueued, flushed, decoderPending,
                 num, byteLength, decoded, sessionVars>>

\* dataViewToNumber(new DataView(bytes.buffer), type) is called.
Decode ==
  /\ encoded.st = "ok"
  /\ decoded.st = "none"
  /\ \E type \in NumberTypes : decoded' = DataViewToNumber(encoded.bytes, type)
  /\ UNCHANGED <<text, rest, chunks, buffer, enqueued, flushed, decoderPending,
                 num, byteLength, encoded, sessionVars>>

NextNumber == Encode \/ Decode

SpecNumber == InitNumber /\ [][NextNumber]_vars

(***************************************************************************)
(* C40: for byteLength k in {1, 2, 4} numberToUint8Array(n, k) yields k    *)
(* bytes whose little-endian value is n when 0 <= n < 2^(8k) and is        *)
(* congruent to n modulo 2^(8k) otherwise; dataViewToNumber over the bytes *)
(* of an in-range n with the unsigned type of the same width returns n;    *)
(* any other byteLength raises an error.                                   *)
(***************************************************************************)
\* 0 <= n < 2^(8k)
InRange(n, k) ==
  IF k = 1 THEN n.hi = 0 /\ n.lo < 256
  ELSE IF k = 2 THEN n.hi = 0
  ELSE n.hi \in 0..65535

\* The value of the bytes bs, least significant first.
RECURSIVE LittleEndianValue(_)
LittleEndianValue(bs) ==
  IF bs = <<>> THEN 0 ELSE Head(bs) + 256 * LittleEndianValue(Tail(bs))

\* a = n modulo 2^(8k), for a given by its bytes.
StoresModulo(bs, n, k) ==
  IF k = 1 THEN LittleEndianValue(bs) = n.lo % 256
  ELSE IF k = 2 THEN LittleEndianValue(bs) = n.lo
  ELSE /\ LittleEndianValue(SubSeq(bs, 1, 2)) = n.lo
       /\ LittleEndianValue(SubSeq(bs, 3, 4)) = n.hi % 65536

UnsignedType(k) ==
  IF k = 1 THEN "uint8" ELSE IF k = 2 THEN "uint16" ELSE "uint32"

C40_NumberRoundTrip ==
  /\ (encoded.st # "none" /\ byteLength \notin {1, 2, 4})
       => encoded.st = "Error"
  /\ (encoded.st # "none" /\ byteLength \in {1, 2, 4})
       => /\ encoded.st = "ok"
          /\ Len(encoded.bytes) = byteLength
          /\ \A i \in 1..byteLength : encoded.bytes[i] \in 0..255
          /\ StoresModulo(encoded.bytes, num, byteLength)
  /\ ( /\ decoded.st # "none"
       /\ decoded.type = UnsignedType(byteLength)
       /\ InRange(num, byteLength) )
       => (decoded.st = "ok" /\ decoded.n = num)

\* A 32-bit number with four different bytes went through both ways.
C40_Witness ==
  /\ byteLength = 4
  /\ num = [hi |-> 4660, lo |-> 32767]
  /\ encoded.bytes = <<255, 127, 52, 18>>
  /\ decoded.st = "ok"
  /\ decoded.type = "uint32"
  /\ decoded.n = num

=============================================================================
